---- MODULE Spec2Model ----
(***************************************************************************)
(* A model of the conversation / swarm orchestration graphs of the         *)
(* langgraph-service (src/langgraph-service/app).                          *)
(*                                                                         *)
(* Text is a sequence of atoms: every atom is a run of characters          *)
(* that contains no whitespace, no '/' and no quote, except the atoms      *)
(* " ", "/", "\"" and "'" which stand for themselves.  An f-string is the  *)
(* concatenation of its parts.  Python's None is the empty option <<>>,    *)
(* a present value x is <<x>>.                                             *)
(***************************************************************************)
EXTENDS Integers, Sequences, FiniteSets, TLC

VARIABLES
    pc,                     \* conversation graph: the next node to run
    state,                  \* ConversationState (the graph's channels)
    spc,                    \* swarm graph: the next node to run
    sw,                     \* SwarmState
    exec,                   \* the execute_agents call in progress
    max_concurrent_agents,  \* settings.max_concurrent_agents
    hops,                   \* how often each swarm node has run
    published,              \* the events handed to publish_event, in order
    gateway_calls,          \* calls made to the LLM gateway
    worker,                 \* the Redis worker: its subscription and handler
    http                    \* the FastAPI app: the request in progress, the
                            \* checkpoints, the events streamed, the last response

vars == <<pc, state, spc, sw, exec, max_concurrent_agents, hops, published,
          gateway_calls, worker, http>>

(***************************************************************************)
(* Bounds of the model.                                                    *)
(***************************************************************************)
MaxTasks == 3       \* sub-tasks of an arbitrary decomposition
MaxDeps == 1        \* dependencies of one such sub-task
MaxMsgLen == 2      \* atoms of an enumerated message
SmallConcurrency == 2   \* a max_concurrent_agents below the batch sizes

\* Settings.max_concurrent_agents: int = 5, overridable from the environment
DefaultMaxConcurrentAgents == 5
ConcurrencySettings == {1, SmallConcurrency, DefaultMaxConcurrentAgents}

None == <<>>
Some(x) == <<x>>

\* Python truthiness of an optional string: None and "" are falsy.
Truthy(opt) == opt # None /\ opt[1] # <<>>

\* A node's update applied to the channels; no channel of SwarmState has a
\* reducer, so a returned key overwrites and a missing key keeps the value.
MergeUpdate(s, u) == [k \in DOMAIN s |-> IF k \in DOMAIN u THEN u[k] ELSE s[k]]

EmptyUpdate == <<>>

(***************************************************************************)
(* Swarm nodes (nodes/swarm_nodes.py)                                      *)
(***************************************************************************)
SubTaskStatus == {"pending", "ready", "running", "completed", "failed"}

SubTask(id, role, deps) ==
    [id |-> id, role |-> role, dependencies |-> deps, status |-> "pending"]

\* {r.sub_task_id for r in state.completed_results}
completed_ids(s) ==
    {s.completed_results[i].sub_task_id : i \in DOMAIN s.completed_results}

\* deps_complete that looks at no dependency.
deps_complete_unchecked(task, cids) == TRUE

\* all(dep in completed_ids for dep in task.dependencies)
deps_complete(task, cids) == \A dep \in task.dependencies : dep \in cids

IsReady(t) == t.status = "ready"
IsRunning(t) == t.status = "running"

TaskIds(tasks) == [i \in DOMAIN tasks |-> tasks[i].id]

\* "Mark tasks without dependencies as ready"
mark_ready(tasks) ==
    [i \in DOMAIN tasks |->
        IF tasks[i].dependencies = {}
        THEN [tasks[i] EXCEPT !.status = "ready"]
        ELSE tasks[i]]

\* spawn_agents that starts one ready task at a time under the sequential
\* strategy.
spawn_agents_by_strategy(s) ==
    LET cids == completed_ids(s)
        promoted == [i \in DOMAIN s.sub_tasks |->
            IF s.sub_tasks[i].status = "pending" /\ deps_complete(s.sub_tasks[i], cids)
            THEN [s.sub_tasks[i] EXCEPT !.status = "ready"]
            ELSE s.sub_tasks[i]]
        ready_tasks == SelectSeq(promoted, IsReady)
        started == IF s.strategy = <<"sequential">> /\ ready_tasks # <<>>
                   THEN <<ready_tasks[1].id>> ELSE TaskIds(ready_tasks)
    IN  IF ready_tasks = <<>>
        THEN IF Cardinality(cids) = Len(s.sub_tasks)
             THEN [phase |-> "synthesizing"]
             ELSE <<>>
        ELSE [sub_tasks |-> [i \in DOMAIN promoted |->
                  IF \E j \in DOMAIN started : started[j] = promoted[i].id
                  THEN [promoted[i] EXCEPT !.status = "running"]
                  ELSE promoted[i]],
              running_agents |-> s.running_agents \o started,
              phase |-> "running"]

spawn_agents(s) ==
    LET cids == completed_ids(s)
        promoted == [i \in DOMAIN s.sub_tasks |->
            IF s.sub_tasks[i].status = "pending" /\ deps_complete(s.sub_tasks[i], cids)
            THEN [s.sub_tasks[i] EXCEPT !.status = "ready"]
            ELSE s.sub_tasks[i]]
        ready_tasks == SelectSeq(promoted, IsReady)
    IN  IF ready_tasks = <<>>
        THEN IF Cardinality(cids) = Len(s.sub_tasks)
             THEN [phase |-> "synthesizing"]
             ELSE EmptyUpdate
        ELSE [sub_tasks |-> [i \in DOMAIN promoted |->
                  IF promoted[i].status = "ready"
                  THEN [promoted[i] EXCEPT !.status = "running"]
                  ELSE promoted[i]],
              running_agents |-> s.running_agents \o TaskIds(ready_tasks),
              phase |-> "running"]

\* _spawn_routing that never looks at the running tasks.
spawn_routing_skips_execute(s) == "synthesize"

\* builder.py: the conditional edge after spawn
spawn_routing(s) ==
    IF SelectSeq(s.sub_tasks, IsRunning) # <<>> THEN "execute" ELSE "synthesize"

\* should_continue_spawning without its dead-lock escape: blocked tasks are
\* waited for.
should_continue_spawning_waits(s) ==
    LET cids == completed_ids(s)
        pending_tasks == {i \in DOMAIN s.sub_tasks :
            s.sub_tasks[i].id \notin cids /\ s.sub_tasks[i].status # "failed"}
    IN  IF pending_tasks = {} THEN "synthesize"
        ELSE IF \E i \in pending_tasks : deps_complete(s.sub_tasks[i], cids)
        THEN "spawn"
        ELSE "execute"

should_continue_spawning(s) ==
    LET cids == completed_ids(s)
        pending_tasks == {i \in DOMAIN s.sub_tasks :
            s.sub_tasks[i].id \notin cids /\ s.sub_tasks[i].status # "failed"}
    IN  IF pending_tasks = {} THEN "synthesize"
        ELSE IF \E i \in pending_tasks : s.sub_tasks[i].status \in {"ready", "running"}
        THEN "execute"
        ELSE IF \E i \in pending_tasks : deps_complete(s.sub_tasks[i], cids)
        THEN "spawn"
        ELSE "synthesize"


\* Atoms whose lower-cased text contains the keyword (kw in request_lower).
KeywordAtoms(kw) ==
    CASE kw = "build" -> {"build", "Build", "rebuild"}
      [] kw = "implement" -> {"implement"}
      [] kw = "review" -> {"review", "Review"}
      [] kw = "audit" -> {"audit"}
      [] OTHER -> {}

ContainsKeyword(text, kw) == \E i \in DOMAIN text : text[i] \in KeywordAtoms(kw)

\* decompose_task whose build template carries no dependencies.
decompose_task_flat(s) ==
    LET req == s.user_request
        build == <<SubTask(1, "architect", {}),
                   SubTask(2, "implementer", {}),
                   SubTask(3, "tester", {})>>
        other == <<SubTask(1, "researcher", {})>>
    IN  IF ContainsKeyword(req, "build") \/ ContainsKeyword(req, "implement")
        THEN [sub_tasks |-> mark_ready(build), strategy |-> Some("sequential"),
              phase |-> "spawning"]
        ELSE [sub_tasks |-> mark_ready(other), strategy |-> Some("sequential"),
              phase |-> "spawning"]

\* The three task templates; ids are the positions (uuid4 ids are distinct).
decompose_task(s) ==
    LET req == s.user_request
        build == <<SubTask(1, "architect", {}),
                   SubTask(2, "implementer", {1}),
                   SubTask(3, "tester", {2})>>
        review == <<SubTask(1, "reviewer", {}),
                    SubTask(2, "security", {}),
                    SubTask(3, "performance", {})>>
        default == <<SubTask(1, "researcher", {})>>
    IN  IF ContainsKeyword(req, "build") \/ ContainsKeyword(req, "implement")
        THEN [sub_tasks |-> mark_ready(build), strategy |-> Some("sequential"),
              phase |-> "spawning"]
        ELSE IF ContainsKeyword(req, "review") \/ ContainsKeyword(req, "audit")
        THEN [sub_tasks |-> mark_ready(review), strategy |-> Some("parallel"),
              phase |-> "spawning"]
        ELSE [sub_tasks |-> mark_ready(default), strategy |-> Some("sequential"),
              phase |-> "spawning"]

\* What a coroutine hands to its awaiter: a value or an exception.
Return(x) == [raised |-> FALSE, value |-> x]
Raise(e) == [raised |-> TRUE, value |-> e]

AgentResult(task, success) ==
    [sub_task_id |-> task.id, role |-> task.role, success |-> success]

\* execute_single_agent without its try/except: the exception leaves the
\* coroutine.
execute_single_agent_unguarded(task, fault) ==
    IF fault THEN Raise(<<"agent error">>)
    ELSE Return(AgentResult(task, TRUE))

\* The try/except of execute_single_agent: an exception in the agent's work
\* (fault) becomes a failed AgentResult.
execute_single_agent(task, fault) ==
    IF fault THEN Return(AgentResult(task, FALSE))
    ELSE Return(AgentResult(task, TRUE))

IdleExec ==
    [active |-> FALSE, running_tasks |-> <<>>, stage |-> <<>>,
     results |-> <<>>, sem_value |-> 0, waiters |-> <<>>]

Batch(e) == {e.running_tasks[i] : i \in DOMAIN e.running_tasks}
InFlight(e) == {t \in Batch(e) : e.stage[t] = "inflight"}

TaskById(s, id) == s.sub_tasks[CHOOSE i \in DOMAIN s.sub_tasks : s.sub_tasks[i].id = id]

\* gather without the semaphore: every coroutine starts its work at once.
gather_dispatch_unlimited(ids, cap) ==
    [active |-> TRUE,
     running_tasks |-> ids,
     stage |-> [t \in {ids[i] : i \in DOMAIN ids} |-> "inflight"],
     results |-> [t \in {ids[i] : i \in DOMAIN ids} |-> [raised |-> FALSE, value |-> <<>>]],
     sem_value |-> cap,
     waiters |-> <<>>]

\* asyncio.Semaphore(n) and asyncio.gather: the coroutines start in list
\* order; each acquires the semaphore at once while its value is positive
\* and queues behind the earlier waiters otherwise.
gather_dispatch(ids, cap) ==
    LET admitted == {ids[i] : i \in {j \in DOMAIN ids : j <= cap}}
        Queued(t) == t \notin admitted
    IN  [active |-> TRUE,
         running_tasks |-> ids,
         stage |-> [t \in {ids[i] : i \in DOMAIN ids} |->
                       IF t \in admitted THEN "inflight" ELSE "queued"],
         results |-> [t \in {ids[i] : i \in DOMAIN ids} |-> Return(None)],
         sem_value |-> IF Len(ids) <= cap THEN cap - Len(ids) ELSE 0,
         waiters |-> SelectSeq(ids, Queued)]

\* "async with semaphore" exit: release() gives the slot back.
semaphore_release(value) == value + 1

\* asyncio.wait(..., return_when=FIRST_COMPLETED) in place of gather.
gather_first_completed(e) ==
    \E t \in {e.running_tasks[i] : i \in DOMAIN e.running_tasks} : e.stage[t] = "done"

\* await asyncio.gather(...): returns when every coroutine has returned,
\* raises as soon as one has raised.
gather_raised(e) == \E t \in Batch(e) : e.results[t].raised
gather_done(e) ==
    gather_raised(e) \/ \A t \in Batch(e) : e.stage[t] = "done"

FinishedResults(e) ==
    LET Done(t) == e.stage[t] = "done"
        done == SelectSeq(e.running_tasks, Done)
    IN  [i \in DOMAIN done |-> e.results[done[i]].value]

\* execute_agents that hands a failed sub-task back for another attempt.
execute_agents_update_retries(s, results) ==
    LET failed == {results[i].sub_task_id : i \in {j \in DOMAIN results : ~results[j].success}}
        in_map == {results[i].sub_task_id : i \in DOMAIN results}
    IN  [sub_tasks |-> [i \in DOMAIN s.sub_tasks |->
            IF s.sub_tasks[i].id \in failed
            THEN [s.sub_tasks[i] EXCEPT !.status = "pending"]
            ELSE IF s.sub_tasks[i].id \in in_map
            THEN [s.sub_tasks[i] EXCEPT !.status = "completed"]
            ELSE s.sub_tasks[i]],
         running_agents |-> <<>>,
         completed_results |-> s.completed_results \o results,
         phase |-> "spawning"]

\* execute_agents that keeps the results of the last batch only.
execute_agents_update_last_batch(s, results) ==
    LET ResultOf(id) == CHOOSE i \in DOMAIN results : results[i].sub_task_id = id
        in_map == {results[i].sub_task_id : i \in DOMAIN results}
    IN  [sub_tasks |-> [i \in DOMAIN s.sub_tasks |->
            IF s.sub_tasks[i].id \in in_map
            THEN [s.sub_tasks[i] EXCEPT !.status =
                    IF results[ResultOf(s.sub_tasks[i].id)].success
                    THEN "completed" ELSE "failed"]
            ELSE s.sub_tasks[i]],
         running_agents |-> <<>>,
         completed_results |-> results,
         phase |-> "spawning"]

\* execute_agents that does not clear running_agents.
execute_agents_update_keeps_running(s, results) ==
    LET ResultOf(id) == CHOOSE i \in DOMAIN results : results[i].sub_task_id = id
        in_map == {results[i].sub_task_id : i \in DOMAIN results}
    IN  [sub_tasks |-> [i \in DOMAIN s.sub_tasks |->
            IF s.sub_tasks[i].id \in in_map
            THEN [s.sub_tasks[i] EXCEPT !.status =
                    IF results[ResultOf(s.sub_tasks[i].id)].success
                    THEN "completed" ELSE "failed"]
            ELSE s.sub_tasks[i]],
         completed_results |-> s.completed_results \o results,
         phase |-> "spawning"]

\* execute_agents that records the first result of the batch only.
execute_agents_update_first_result(s, results) ==
    LET first == IF results = <<>> THEN <<>> ELSE <<results[1]>>
        in_map == {first[i].sub_task_id : i \in DOMAIN first}
    IN  [sub_tasks |-> [i \in DOMAIN s.sub_tasks |->
            IF s.sub_tasks[i].id \in in_map
            THEN [s.sub_tasks[i] EXCEPT !.status =
                    IF first[1].success THEN "completed" ELSE "failed"]
            ELSE s.sub_tasks[i]],
         running_agents |-> <<>>,
         completed_results |-> s.completed_results \o first,
         phase |-> "spawning"]

\* execute_agents after the gather: statuses, results, phase.
execute_agents_update(s, results) ==
    LET ResultOf(id) == CHOOSE i \in DOMAIN results : results[i].sub_task_id = id
        in_map == {results[i].sub_task_id : i \in DOMAIN results}
    IN  [sub_tasks |-> [i \in DOMAIN s.sub_tasks |->
            IF s.sub_tasks[i].id \in in_map
            THEN [s.sub_tasks[i] EXCEPT !.status =
                    IF results[ResultOf(s.sub_tasks[i].id)].success
                    THEN "completed" ELSE "failed"]
            ELSE s.sub_tasks[i]],
         running_agents |-> <<>>,
         completed_results |-> s.completed_results \o results,
         phase |-> "spawning"]

IsSuccess(r) == r.success

\* synthesize_results that gives up when no agent succeeded.
synthesize_results_needs_success(s) ==
    IF SelectSeq(s.completed_results, IsSuccess) = <<>>
    THEN [phase |-> "failed"]
    ELSE [synthesized_summary |-> <<
            [request |-> s.user_request,
             succeeded |-> Len(SelectSeq(s.completed_results, IsSuccess)),
             total |-> Len(s.completed_results),
             agent_sections |-> [i \in DOMAIN s.completed_results |->
                [role |-> s.completed_results[i].role,
                 marker |-> IF s.completed_results[i].success THEN "pass" ELSE "fail"]]]>>,
          phase |-> "completed"]

synthesize_results(s) ==
    [synthesized_summary |-> Some(
        [request |-> s.user_request,
         succeeded |-> Len(SelectSeq(s.completed_results, IsSuccess)),
         total |-> Len(s.completed_results),
         agent_sections |-> [i \in DOMAIN s.completed_results |->
            [role |-> s.completed_results[i].role,
             marker |-> IF s.completed_results[i].success THEN "pass" ELSE "fail"]]]),
     phase |-> "completed"]

\* create_swarm_state (graph/state.py)
create_swarm_state(request) ==
    [user_request |-> request, sub_tasks |-> <<>>, strategy |-> None,
     running_agents |-> <<>>, completed_results |-> <<>>,
     synthesized_summary |-> None, phase |-> "decomposing", error |-> None]

NoHops == [spawn |-> 0, execute |-> 0]

\* RedisRequestHandler before any message: nothing received, no request in
\* the handler.
IdleWorker ==
    [inbox |-> <<>>, handling |-> <<>>, delivered |-> 0,
     running |-> FALSE, task |-> "none", alive |-> 0]

\* The coroutines that call get_checkpointer: three HTTP requests and the
\* worker's request handler.  A call is idle, suspended in
\* setup_checkpointer (at "await _checkpointer_cm.__aenter__()" with the
\* saver it will get, or at "await _checkpointer.setup()"), or has returned.
Callers == {"request-1", "request-2", "request-3", "worker"}
IdleCall == [at |-> "idle", saver |-> <<>>, returned |-> <<>>]

\* The thread ids of the requests: request.thread_id, or a fresh one.
ThreadIds == {"thread-1", "thread-2"}

\* The app with no request in progress and no checkpointer
\* (enable_checkpointing off): a graph run is a plain graph.ainvoke.
NoHttp ==
    [endpoint |-> "none", thread_id |-> None, enable_checkpointing |-> FALSE,
     checkpoints |-> [t \in ThreadIds |-> None], events |-> <<>>,
     response |-> None, requests |-> 0,
     lifespan |-> FALSE, checkpointer |-> None, setups |-> 0,
     calls |-> [c \in Callers |-> IdleCall]]

(***************************************************************************)
(* The swarm graph (build_swarm_graph): one action per node, with the      *)
(* conditional edge that follows it.  execute_agents suspends at its       *)
(* gather; the agents' steps interleave before it resumes.                 *)
(***************************************************************************)
Decompose ==
    /\ spc = "decompose"
    /\ sw' = MergeUpdate(sw, decompose_task(sw))
    /\ spc' = "spawn"
    /\ UNCHANGED <<pc, state, published, gateway_calls, exec, max_concurrent_agents, http, worker, hops>>

Spawn ==
    /\ spc = "spawn"
    /\ sw' = MergeUpdate(sw, spawn_agents(sw))
    /\ spc' = spawn_routing(sw')
    /\ hops' = [hops EXCEPT !.spawn = @ + 1]
    /\ UNCHANGED <<pc, state, published, gateway_calls, exec, max_concurrent_agents, http, worker>>

ExecuteBegin ==
    /\ spc = "execute"
    /\ ~exec.active
    /\ hops' = [hops EXCEPT !.execute = @ + 1]
    /\ LET running_tasks == SelectSeq(sw.sub_tasks, IsRunning)
       IN  IF running_tasks = <<>>
           THEN /\ sw' = MergeUpdate(sw, [phase |-> "spawning"])
                /\ spc' = should_continue_spawning(sw')
                /\ UNCHANGED exec
           ELSE /\ exec' = gather_dispatch(TaskIds(running_tasks), max_concurrent_agents)
                /\ UNCHANGED <<sw, spc>>
    /\ UNCHANGED <<pc, state, published, gateway_calls, max_concurrent_agents, http, worker>>

\* A queued limited_execute gets the semaphore (FIFO).
AgentAcquire ==
    /\ exec.active
    /\ exec.waiters # <<>>
    /\ exec.sem_value > 0
    /\ exec' = [exec EXCEPT !.sem_value = @ - 1,
                            !.waiters = Tail(@),
                            !.stage[Head(exec.waiters)] = "inflight"]
    /\ UNCHANGED <<pc, state, published, gateway_calls, spc, sw, max_concurrent_agents, http, worker, hops>>

\* An agent's work ends, well or with an exception, and its slot is released.
AgentFinish ==
    /\ exec.active
    /\ \E t \in InFlight(exec), fault \in BOOLEAN :
        exec' = [exec EXCEPT !.stage[t] = "done",
                             !.results[t] = execute_single_agent(TaskById(sw, t), fault),
                             !.sem_value = semaphore_release(@)]
    /\ UNCHANGED <<pc, state, published, gateway_calls, spc, sw, max_concurrent_agents, http, worker, hops>>

ExecuteJoin ==
    /\ spc = "execute"
    /\ exec.active
    /\ gather_done(exec)
    /\ IF gather_raised(exec)
       THEN /\ spc' = "raised"
            /\ UNCHANGED sw
       ELSE /\ sw' = MergeUpdate(sw, execute_agents_update(sw, FinishedResults(exec)))
            /\ spc' = should_continue_spawning(sw')
    /\ exec' = [exec EXCEPT !.active = FALSE]
    /\ UNCHANGED <<pc, state, published, gateway_calls, max_concurrent_agents, http, worker, hops>>

Synthesize ==
    /\ spc = "synthesize"
    /\ sw' = MergeUpdate(sw, synthesize_results(sw))
    /\ spc' = "END"
    /\ UNCHANGED <<pc, state, published, gateway_calls, exec, max_concurrent_agents, http, worker, hops>>

SwarmNext ==
    \/ Spawn
    \/ ExecuteBegin
    \/ AgentAcquire
    \/ AgentFinish
    \/ ExecuteJoin
    \/ Synthesize

(***************************************************************************)
(* The swarm graph on an arbitrary plan: the sub-tasks as a decomposition  *)
(* leaves them, with any dependency lists over the ids.                    *)
(***************************************************************************)
NoConversation == [phase |-> "input_received"]

DependencyLists == {d \in SUBSET (1..MaxTasks) : Cardinality(d) <= MaxDeps}

ArbitraryPlans ==
    UNION {
        {[i \in 1..n |-> SubTask(i, "custom", deps[i])] :
            deps \in [1..n -> DependencyLists]}
        : n \in 1..MaxTasks}

SwarmInit ==
    /\ pc = "swarm_graph"
    /\ state = NoConversation
    /\ spc = "spawn"
    /\ \E plan \in ArbitraryPlans :
        sw = MergeUpdate(create_swarm_state(<<"request">>),
                         [sub_tasks |-> mark_ready(plan),
                          strategy |-> Some("hybrid"),
                          phase |-> "spawning"])
    /\ exec = IdleExec
    /\ max_concurrent_agents = SmallConcurrency
    /\ hops = NoHops
    /\ published = <<>>
    /\ gateway_calls = 0
    /\ worker = IdleWorker
    /\ http = NoHttp

SwarmSpec == SwarmInit /\ [][SwarmNext]_vars

FairSwarmSpec == SwarmSpec /\ WF_vars(SwarmNext)

(***************************************************************************)
(* Text helpers: Python's str methods on atom sequences.                   *)
(***************************************************************************)
SP == " "
SLASH == "/"
DQ == "\""
SQ == "'"

RECURSIVE LStrip(_)
LStrip(t) == IF t # <<>> /\ t[1] = SP THEN LStrip(Tail(t)) ELSE t

RECURSIVE RStrip(_)
RStrip(t) ==
    IF t # <<>> /\ t[Len(t)] = SP THEN RStrip(SubSeq(t, 1, Len(t) - 1)) ELSE t

\* str.strip()
Strip(t) == LStrip(RStrip(t))

\* str.startswith("/")
StartsWithSlash(t) == t # <<>> /\ t[1] = SLASH

\* The longest prefix without whitespace.
RECURSIVE FirstWord(_)
FirstWord(t) ==
    IF t = <<>> \/ t[1] = SP THEN <<>> ELSE <<t[1]>> \o FirstWord(Tail(t))

Drop(t, n) == SubSeq(t, n + 1, Len(t))

\* str.split(maxsplit=1): at most the first word and the rest, the rest
\* without its leading whitespace; no empty strings.
SplitOnce(t) ==
    LET u == LStrip(t)
        w == FirstWord(u)
        rest == LStrip(Drop(u, Len(w)))
    IN  IF u = <<>> THEN <<>>
        ELSE IF rest = <<>> THEN <<w>>
        ELSE <<w, rest>>

\* str.lower() of one atom, of a text
LowerAtom(a) ==
    CASE a = "HELP" -> "help"
      [] a = "Stop" -> "stop"
      [] a = "SWARM" -> "swarm"
      [] a = "Build" -> "build"
      [] a = "Review" -> "review"
      [] OTHER -> a

Lower(t) == [i \in DOMAIN t |-> LowerAtom(t[i])]

\* The position of the first q after position 1, 0 when there is none.
ClosingQuote(t, q) ==
    IF \E j \in 2..Len(t) : t[j] = q
    THEN CHOOSE j \in 2..Len(t) : t[j] = q /\ \A k \in 2..(j - 1) : t[k] # q
    ELSE 0

\* re.finditer(r'"([^"]+)"|\'([^\']+)\'|(\S+)', arg_str), each match's
\* group(1) or group(2) or group(3)
RECURSIVE TokenizeArgs(_)
TokenizeArgs(t) ==
    IF t = <<>> THEN <<>>
    ELSE IF t[1] = SP THEN TokenizeArgs(Tail(t))
    ELSE IF t[1] \in {DQ, SQ} /\ ClosingQuote(t, t[1]) > 2
    THEN <<SubSeq(t, 2, ClosingQuote(t, t[1]) - 1)>>
            \o TokenizeArgs(Drop(t, ClosingQuote(t, t[1])))
    ELSE <<FirstWord(t)>> \o TokenizeArgs(Drop(t, Len(FirstWord(t))))

\* " ".join(args)
RECURSIVE JoinArgs(_)
JoinArgs(args) ==
    IF args = <<>> THEN <<>>
    ELSE IF Len(args) = 1 THEN args[1]
    ELSE args[1] \o <<SP>> \o JoinArgs(Tail(args))

(***************************************************************************)
(* Input nodes (nodes/input_nodes.py)                                      *)
(***************************************************************************)
DETERMINISTIC_COMMANDS ==
    {<<c>> : c \in {"help", "status", "getcwd", "setcwd", "clone", "repos", "repo",
        "repo-remove", "reset", "reset-context", "command-set", "load-commands",
        "commands", "template-add", "template-list", "templates", "template-delete",
        "worktree", "init", "verbose", "stop", "quickref", "agents", "chains",
        "prompts", "commands-all"}}

\* ExecutionPhase, in the order of the enum (graph/state.py)
ExecutionPhase ==
    <<"input_received", "input_parsed", "context_loaded", "command_routing",
      "command_executed", "isolation_resolved", "session_prepared", "ai_executing",
      "ai_streaming", "ai_completed", "swarm_decomposing", "swarm_executing",
      "swarm_synthesizing", "swarm_completed", "response_sent", "error", "completed">>

InputType ==
    {"deterministic_command", "codebase_command", "template_command", "ai_query",
     "swarm_request"}

ParsedCommand(command, args, raw) == [command |-> command, args |-> args, raw |-> raw]

\* parts[0] of an empty parts list raises IndexError.
parse_command(message) ==
    IF ~StartsWithSlash(message) THEN Return(None)
    ELSE LET parts == SplitOnce(Tail(message))
         IN  IF parts = <<>> THEN Raise(<<"IndexError">>)
             ELSE Return(Some(ParsedCommand(
                    Lower(parts[1]),
                    IF Len(parts) > 1 THEN TokenizeArgs(parts[2]) ELSE <<>>,
                    message)))

\* The classification without its swarm branch.
classify_command_without_swarm(command) ==
    IF command \in DETERMINISTIC_COMMANDS THEN "deterministic_command"
    ELSE IF command = <<"command-invoke">> THEN "codebase_command"
    ELSE "template_command"

classify_command(command) ==
    IF command \in DETERMINISTIC_COMMANDS THEN "deterministic_command"
    ELSE IF command = <<"command-invoke">> THEN "codebase_command"
    ELSE IF command = <<"swarm">> THEN "swarm_request"
    ELSE "template_command"

parse_input(s) ==
    LET message == Strip(s.raw_message)
    IN  IF StartsWithSlash(message)
        THEN LET parsed == parse_command(message)
             IN  IF parsed.raised THEN parsed
                 ELSE IF parsed.value = None
                 THEN Return([phase |-> "error",
                              error |-> Some(<<"Failed to parse command">>)])
                 ELSE Return([input_type |-> Some(classify_command(parsed.value[1].command)),
                              parsed_command |-> parsed.value,
                              command_name |-> Some(parsed.value[1].command),
                              phase |-> "input_parsed"])
        ELSE Return([input_type |-> Some("ai_query"),
                     parsed_command |-> None,
                     command_name |-> None,
                     phase |-> "input_parsed"])

load_context(s) ==
    [context |-> Some([codebase_id |-> None, codebase_name |-> None,
                       cwd |-> Some(<<"/home/user">>)]),
     phase |-> "context_loaded"]

(***************************************************************************)
(* Routing nodes (nodes/routing_nodes.py)                                  *)
(***************************************************************************)
\* The router with the node names tests/test_graph.py expects.
get_routing_decision_renamed(s) ==
    IF s.error # <<>> /\ s.error[1] # <<>> THEN "error_handler"
    ELSE CASE s.input_type = <<"deterministic_command">> -> "execute_command"
           [] s.input_type = <<"swarm_request">> -> "execute_swarm"
           [] s.input_type = <<"ai_query">> -> "execute_ai"
           [] OTHER -> "build_prompt"

\* get_routing_decision with the names tests/test_graph.py expects.
get_routing_decision_as_tested(s) ==
    IF Truthy(s.error) THEN "error_handler"
    ELSE CASE s.input_type = <<"deterministic_command">> -> "execute_command"
           [] s.input_type = <<"codebase_command">> -> "build_prompt"
           [] s.input_type = <<"template_command">> -> "build_prompt"
           [] s.input_type = <<"swarm_request">> -> "execute_swarm"
           [] s.input_type = <<"ai_query">> -> "execute_ai"
           [] OTHER -> "error_handler"

get_routing_decision(s) ==
    IF Truthy(s.error) THEN "error_handler"
    ELSE CASE s.input_type = Some("deterministic_command") -> "execute_command"
           [] s.input_type = Some("codebase_command") -> "build_prompt"
           [] s.input_type = Some("template_command") -> "build_prompt"
           [] s.input_type = Some("swarm_request") -> "swarm_subgraph"
           [] s.input_type = Some("ai_query") -> "build_prompt"
           [] OTHER -> "error_handler"

\* builder.py: the table of the conditional edge after route_input
RoutingEdges ==
    [execute_command |-> "execute_command", build_prompt |-> "build_prompt",
     swarm_subgraph |-> "swarm_subgraph", error_handler |-> "error_handler"]

\* The node a conditional edge leads to; a name that is no key of the
\* table leads nowhere.
EdgeTarget(table, name) ==
    IF name \in DOMAIN table THEN table[name] ELSE "undefined_edge"

route_input(s) == [phase |-> "command_routing"]

\* str.replace(old, new) for an old that is one atom
ReplaceAtom(t, old, new) ==
    LET RECURSIVE R(_)
        R(u) == IF u = <<>> THEN <<>>
                ELSE (IF u[1] = old THEN new ELSE <<u[1]>>) \o R(Tail(u))
    IN  R(t)

PositionalPlaceholder(i) ==
    CASE i = 1 -> "$1" [] i = 2 -> "$2" [] i = 3 -> "$3" [] OTHER -> "$n"

\* for i, arg in enumerate(args, 1): template = template.replace(f"${i}", arg)
RECURSIVE SubstituteArgs(_, _, _)
SubstituteArgs(template, args, i) ==
    IF i > Len(args) THEN template
    ELSE SubstituteArgs(ReplaceAtom(template, PositionalPlaceholder(i), args[i]),
                        args, i + 1)

\* build_prompt that puts the issue context in front of the request.
build_prompt_issue_first(s) ==
    LET base == IF Truthy(s.issue_context)
                THEN s.issue_context[1] \o <<"---">> \o s.raw_message
                ELSE s.raw_message
        prompt == IF Truthy(s.thread_context)
                  THEN <<"## Thread Context (previous messages)">>
                       \o s.thread_context[1]
                       \o <<"---", "## Current Request">> \o base
                  ELSE base
    IN  [prompt_to_send |-> <<prompt>>, phase |-> "session_prepared"]

build_prompt(s) ==
    LET command_name == IF Truthy(s.command_name) THEN s.command_name[1]
                        ELSE <<"unknown">>
        args == s.parsed_command[1].args
        template == ReplaceAtom(
            SubstituteArgs(<<"Execute the '">> \o command_name \o <<"' command">>,
                           args, 1),
            "$ARGUMENTS", JoinArgs(args))
        wrapped ==
            <<"The user invoked the /">> \o command_name
            \o <<" command. Execute the following instructions immediately without asking for confirmation:",
                 "---">>
            \o template
            \o <<"---",
                 "Remember: The user already decided to run this command. Take action now.">>
        base == IF s.input_type \in {Some("codebase_command"), Some("template_command")}
                   /\ s.parsed_command # None
                THEN wrapped ELSE s.raw_message
        threaded == IF Truthy(s.thread_context)
                    THEN <<"## Thread Context (previous messages)">>
                         \o s.thread_context[1]
                         \o <<"---", "## Current Request">> \o base
                    ELSE base
        prompt == IF Truthy(s.issue_context)
                  THEN threaded \o <<"---">> \o s.issue_context[1]
                  ELSE threaded
    IN  [prompt_to_send |-> Some(prompt), phase |-> "session_prepared"]

(***************************************************************************)
(* Execution nodes (nodes/execution_nodes.py)                              *)
(***************************************************************************)
Event(type, data) == [type |-> type, data |-> data]

(***************************************************************************)
(* services/redis_pubsub.py                                                *)
(***************************************************************************)
\* publish_event whose redis.publish exception leaves the function.
publish_event_unguarded(event, redis_up) ==
    IF redis_up THEN [raised |-> FALSE, value |-> <<>>]
    ELSE [raised |-> TRUE, value |-> <<"ConnectionError">>]

\* publish_event: one redis.publish; its exception is logged, not raised.
publish_event(event, redis_up) ==
    IF redis_up THEN Return(None) ELSE Return(None)

\* What reaches redis.publish for one event, and whether it went through.
Attempt(event, redis_up) ==
    [type |-> event.type, data |-> event.data, delivered |-> redis_up]

\* The position of the first publish_event call that raises, 0 if none does.
FirstRaise(events, redis_up) ==
    IF \E i \in DOMAIN events : publish_event(events[i], redis_up).raised
    THEN CHOOSE i \in DOMAIN events :
            /\ publish_event(events[i], redis_up).raised
            /\ \A j \in 1..(i - 1) : ~publish_event(events[j], redis_up).raised
    ELSE 0

\* The publish_event calls of one node run, in order, up to a raising one.
Attempts(events, redis_up) ==
    LET n == IF FirstRaise(events, redis_up) = 0 THEN Len(events)
             ELSE FirstRaise(events, redis_up)
    IN  [i \in 1..n |-> Attempt(events[i], redis_up)]

RedisEventType ==
    {"request", "stop", "response", "error", "ai_start", "ai_chunk", "ai_complete",
     "ai_error", "command_start", "command_complete", "operation_stopped",
     "swarm_start", "swarm_task_decomposed", "swarm_agent_spawned",
     "swarm_agent_progress", "swarm_agent_complete", "swarm_complete", "health",
     "ping", "pong"}

\* settings.redis_channel_prefix
redis_channel_prefix == <<"lugh:langgraph:">>

\* _get_channel: "if conversation_id:" leaves out a conversation id that is
\* None or the empty string, and the colon with it.
get_channel(channel_type, conversation_id) ==
    IF conversation_id # <<>>
    THEN redis_channel_prefix \o <<channel_type, ":">> \o conversation_id
    ELSE redis_channel_prefix \o <<channel_type>>

\* publish_event: "Determine channel based on event type"
publish_channel(event_type, conversation_id) ==
    IF event_type = "response" THEN get_channel("response", conversation_id)
    ELSE IF event_type \in {"ai_chunk", "swarm_agent_progress"}
    THEN get_channel("events", conversation_id)
    ELSE get_channel("events", conversation_id)

\* The payload publish_event hands to redis.publish, and the channel.
Publication(event_type, conversation_id, redis_up) ==
    [type |-> event_type, conversation_id |-> conversation_id,
     channel |-> publish_channel(event_type, conversation_id),
     delivered |-> redis_up]

HelpText == <<"**Lugh Commands**">>

\* The match statement with its default case alone.
execute_command_response_default(s, command) ==
    <<"Command /">> \o command.command
    \o <<" not yet implemented in LangGraph service.">>

execute_command_response(s, command) ==
    CASE command.command = <<"help">> -> HelpText
      [] command.command = <<"status">> ->
            <<"**Status**", "Codebase: ">>
            \o (IF s.context # None /\ Truthy(s.context[1].codebase_name)
                THEN s.context[1].codebase_name[1] ELSE <<"None">>)
            \o <<"Working Dir: ">>
            \o (IF s.context # None /\ Truthy(s.context[1].cwd)
                THEN s.context[1].cwd[1] ELSE <<"Not set">>)
            \o <<"Phase: ", s.phase>>
      [] command.command = <<"repos">> ->
            <<"**Configured Codebases**", "No codebases configured yet.">>
      [] command.command = <<"getcwd">> ->
            <<"Current directory: ">>
            \o (IF s.context # None
                THEN (IF s.context[1].cwd = None THEN <<"None">> ELSE s.context[1].cwd[1])
                ELSE <<"Not set">>)
      [] command.command = <<"stop">> -> <<"Operation stopped.">>
      [] OTHER ->
            <<"Command /">> \o command.command
            \o <<" not yet implemented in LangGraph service.">>

\* execute_command without a handler for stop.
execute_command_without_stop(s) ==
    IF s.parsed_command = <<>>
    THEN [update |-> [error |-> <<<<"No command to execute">>>>, phase |-> "error"],
          events |-> <<>>]
    ELSE [update |-> [direct_response |->
                        <<<<"Command /">> \o s.parsed_command[1].command
                          \o <<" not yet implemented in LangGraph service.">>>>,
                      skip_ai |-> TRUE,
                      phase |-> "command_executed"],
          events |-> <<[type |-> "command_start", data |-> s.parsed_command[1].command]>>]

\* execute_command whose default case refuses the command.
execute_command_strict(s) ==
    IF s.parsed_command = <<>>
    THEN [update |-> [error |-> <<<<"No command to execute">>>>, phase |-> "error"],
          events |-> <<>>]
    ELSE IF s.parsed_command[1].command \in
                {<<"help">>, <<"status">>, <<"repos">>, <<"getcwd">>, <<"stop">>}
    THEN [update |-> [direct_response |->
                        <<execute_command_response(s, s.parsed_command[1])>>,
                      skip_ai |-> TRUE,
                      phase |-> "command_executed"],
          events |-> <<[type |-> "command_start", data |-> s.parsed_command[1].command]>>]
    ELSE [update |-> [error |-> <<<<"Unknown command">>>>, phase |-> "error"],
          events |-> <<[type |-> "command_start", data |-> s.parsed_command[1].command]>>]

\* The node's update and the events it publishes.
execute_command(s) ==
    IF s.parsed_command = None
    THEN [update |-> [error |-> Some(<<"No command to execute">>), phase |-> "error"],
          events |-> <<>>]
    ELSE LET command == s.parsed_command[1]
             start == Event("command_start", command.command)
         IN  IF command.command = <<"stop">>
             THEN [update |-> [direct_response |-> Some(execute_command_response(s, command)),
                               was_aborted |-> TRUE,
                               skip_ai |-> TRUE,
                               phase |-> "command_executed"],
                   events |-> <<start, Event("operation_stopped", <<>>)>>]
             ELSE [update |-> [direct_response |-> Some(execute_command_response(s, command)),
                               skip_ai |-> TRUE,
                               phase |-> "command_executed"],
                   events |-> <<start>>]

HumanMessage(content) == [type |-> "human", content |-> content]
AIMessage(content) == [type |-> "ai", content |-> content]

AIExecutionResult(success, error) == [success |-> success, error |-> error]

\* What the LLM gateway can answer: a streamed reply, or an exception
\* (get_llm's ValueError for a missing key, a network error, a timeout).
GatewayOutcomes ==
    {Return(<<"reply">>), Return(<<>>),
     Raise(<<"ANTHROPIC_API_KEY not configured">>), Raise(<<"timeout">>)}

\* execute_ai that calls the gateway a second time after a failure.
execute_ai_retrying(s, gateway) ==
    IF s.prompt_to_send = <<>> \/ s.prompt_to_send[1] = <<>>
    THEN [update |-> [error |-> <<<<"No prompt to execute">>>>, phase |-> "error"],
          events |-> <<>>, calls |-> 0]
    ELSE IF gateway.raised
    THEN [update |-> [error |-> <<<<"AI execution failed: ">> \o gateway.value>>,
                      ai_result |-> <<[success |-> FALSE, error |-> <<gateway.value>>]>>,
                      phase |-> "error"],
          events |-> <<[type |-> "ai_start", data |-> <<>>],
                       [type |-> "ai_error", data |-> gateway.value]>>,
          calls |-> 2]
    ELSE [update |-> [messages |-> <<[type |-> "human", content |-> s.prompt_to_send[1]],
                                     [type |-> "ai", content |-> gateway.value]>>,
                      ai_result |-> <<[success |-> TRUE, error |-> <<>>]>>,
                      phase |-> "ai_completed"],
          events |-> <<[type |-> "ai_start", data |-> <<>>],
                       [type |-> "ai_complete", data |-> <<>>]>>,
          calls |-> 1]

execute_ai(s, gateway) ==
    IF ~Truthy(s.prompt_to_send)
    THEN [update |-> [error |-> Some(<<"No prompt to execute">>), phase |-> "error"],
          events |-> <<>>, calls |-> 0]
    ELSE IF gateway.raised
    THEN [update |-> [error |-> Some(<<"AI execution failed: ">> \o gateway.value),
                      ai_result |-> Some(AIExecutionResult(FALSE, Some(gateway.value))),
                      phase |-> "error"],
          events |-> <<Event("ai_start", <<>>), Event("ai_error", gateway.value)>>,
          calls |-> 1]
    ELSE [update |-> [messages |-> <<HumanMessage(s.prompt_to_send[1]),
                                     AIMessage(gateway.value)>>,
                      ai_result |-> Some(AIExecutionResult(TRUE, None)),
                      phase |-> "ai_completed"],
          events |-> <<Event("ai_start", <<>>), Event("ai_complete", <<>>)>>,
          calls |-> 1]

\* for msg in reversed(state.messages): if isinstance(msg, AIMessage): ...
LastAIMessage(messages) ==
    LET ai == {i \in DOMAIN messages : messages[i].type = "ai"}
    IN  IF ai = {} THEN <<>>
        ELSE <<messages[CHOOSE i \in ai : \A j \in ai : j <= i].content>>

\* send_response that answers only a state it has not answered yet.
send_response_responses_once(s) ==
    IF s.phase = "completed" THEN <<>>
    ELSE IF s.direct_response # <<>> /\ s.direct_response[1] # <<>>
    THEN <<s.direct_response[1]>>
    ELSE IF s.ai_result # <<>> /\ s.messages # <<>> THEN LastAIMessage(s.messages)
    ELSE IF s.swarm_result # <<>> THEN <<s.swarm_result[1].summary>>
    ELSE IF s.error # <<>> /\ s.error[1] # <<>> THEN <<<<"Error: ">> \o s.error[1]>>
    ELSE <<>>

\* send_response with independent ifs in place of the elif chain.
send_response_responses_all(s) ==
    (IF s.direct_response # <<>> /\ s.direct_response[1] # <<>>
     THEN <<s.direct_response[1]>> ELSE <<>>)
    \o (IF s.ai_result # <<>> /\ s.messages # <<>> THEN LastAIMessage(s.messages) ELSE <<>>)
    \o (IF s.swarm_result # <<>> THEN <<s.swarm_result[1].summary>> ELSE <<>>)
    \o (IF s.error # <<>> /\ s.error[1] # <<>> THEN <<<<"Error: ">> \o s.error[1]>> ELSE <<>>)

\* send_response without its error branch.
send_response_responses_without_error(s) ==
    IF s.direct_response # <<>> /\ s.direct_response[1] # <<>>
    THEN <<s.direct_response[1]>>
    ELSE IF s.ai_result # <<>> /\ s.messages # <<>> THEN LastAIMessage(s.messages)
    ELSE IF s.swarm_result # <<>> THEN <<s.swarm_result[1].summary>>
    ELSE <<>>

send_response_responses(s) ==
    IF Truthy(s.direct_response) THEN <<s.direct_response[1]>>
    ELSE IF s.ai_result # None /\ s.messages # <<>> THEN LastAIMessage(s.messages)
    ELSE IF s.swarm_result # None THEN <<s.swarm_result[1].summary>>
    ELSE IF Truthy(s.error) THEN <<<<"Error: ">> \o s.error[1]>>
    ELSE <<>>

send_response(s) ==
    LET responses == send_response_responses(s)
    IN  [update |-> [responses_sent |-> responses, phase |-> "completed"],
         events |-> [i \in DOMAIN responses |-> Event("response", responses[i])]]

handle_error(s) ==
    LET text == IF Truthy(s.error) THEN s.error[1] ELSE <<"Unknown error">>
    IN  [update |-> [direct_response |-> Some(<<"An error occurred: ">> \o text),
                     phase |-> "error"],
         events |-> <<Event("error", text)>>]

(***************************************************************************)
(* The swarm sub-graph as a node of the conversation graph                 *)
(* (builder.py, _create_swarm_node).                                       *)
(***************************************************************************)
swarm_request(s) ==
    IF s.parsed_command # None /\ s.parsed_command[1].args # <<>>
    THEN JoinArgs(s.parsed_command[1].args)
    ELSE s.raw_message

IsFailure(r) == ~r.success

\* The result with completed_count taken as "every sub-task that did not
\* fail".
SwarmResult_by_status(final_state) ==
    LET Failed(task) == task.status = "failed"
    IN  [status |-> IF final_state.phase = "completed" THEN "completed" ELSE "failed",
         summary |-> IF final_state.synthesized_summary # <<>>
                     THEN final_state.synthesized_summary[1]
                     ELSE <<"Swarm execution completed">>,
         agent_count |-> Len(final_state.sub_tasks),
         completed_count |-> Len(final_state.sub_tasks)
                                - Len(SelectSeq(final_state.sub_tasks, Failed)),
         failed_count |-> Len(SelectSeq(final_state.sub_tasks, Failed))]

SwarmResult(final_state) ==
    [status |-> IF final_state.phase = "completed" THEN "completed" ELSE "failed",
     summary |-> IF final_state.synthesized_summary # None
                 THEN final_state.synthesized_summary[1]
                 ELSE <<"Swarm execution completed">>,
     agent_count |-> Len(final_state.sub_tasks),
     completed_count |-> Len(SelectSeq(final_state.completed_results, IsSuccess)),
     failed_count |-> Len(SelectSeq(final_state.completed_results, IsFailure))]

\* swarm_node after "await swarm_graph.ainvoke(...)": the try's result or
\* the except's error
swarm_node_update(final_state, graph_raised) ==
    IF graph_raised
    THEN [error |-> Some(<<"Swarm execution failed: ", "agent error">>),
          phase |-> "error"]
    ELSE [swarm_result |-> Some(SwarmResult(final_state)),
          phase |-> "swarm_completed"]

(***************************************************************************)
(* The conversation graph (build_conversation_graph)                       *)
(***************************************************************************)
\* create_conversation_state (graph/state.py)
create_conversation_state(message, issue_context, thread_context) ==
    [raw_message |-> message,
     issue_context |-> issue_context,
     thread_context |-> thread_context,
     messages |-> <<>>,
     input_type |-> None,
     parsed_command |-> None,
     command_name |-> None,
     context |-> None,
     prompt_to_send |-> None,
     skip_ai |-> FALSE,
     direct_response |-> None,
     ai_result |-> None,
     swarm_result |-> None,
     error |-> None,
     was_aborted |-> FALSE,
     phase |-> "input_received",
     responses_sent |-> <<>>]

\* A node's update applied to the channels of ConversationState: messages
\* has the add_messages reducer (new messages are appended), every other
\* channel is overwritten.
ApplyUpdate(s, u) ==
    [k \in DOMAIN s |->
        IF k \in DOMAIN u
        THEN (IF k = "messages" THEN s[k] \o u[k] ELSE u[k])
        ELSE s[k]]

\* event_generator (main.py): one node_update event per (node, update) pair
\* the graph yields.
node_update(node, thread_id, update) ==
    [event |-> "node_update", node |-> node, thread_id |-> thread_id,
     update |-> update]

\* graph.astream after a node has run: the checkpointer, when there is one,
\* saves the channels under the run's thread id, and the node's update is
\* yielded to the caller; /conversation/stream turns it into an event.
astream_yield(h, node, update, values) ==
    [h EXCEPT
        !.checkpoints = IF h.enable_checkpointing /\ h.thread_id # None
                        THEN [@ EXCEPT ![h.thread_id[1]] = Some(values)]
                        ELSE @,
        !.events = IF h.endpoint = "stream"
                   THEN Append(@, node_update(node, h.thread_id, update))
                   ELSE @]

ParseInput ==
    /\ pc = "parse_input"
    /\ LET r == parse_input(state)
       IN  IF r.raised
           THEN pc' = "raised" /\ UNCHANGED <<state, http>>
           ELSE /\ pc' = "load_context"
                /\ state' = ApplyUpdate(state, r.value)
                /\ http' = astream_yield(http, "parse_input", r.value, state')
    /\ UNCHANGED <<spc, sw, exec, max_concurrent_agents, worker, hops, published, gateway_calls>>

LoadContext ==
    /\ pc = "load_context"
    /\ state' = ApplyUpdate(state, load_context(state))
    /\ http' = astream_yield(http, "load_context", load_context(state), state')
    /\ pc' = "route_input"
    /\ UNCHANGED <<spc, sw, exec, max_concurrent_agents, worker, hops, published, gateway_calls>>

RouteInput ==
    /\ pc = "route_input"
    /\ state' = ApplyUpdate(state, route_input(state))
    /\ http' = astream_yield(http, "route_input", route_input(state), state')
    /\ pc' = EdgeTarget(RoutingEdges, get_routing_decision(state'))
    /\ UNCHANGED <<spc, sw, exec, max_concurrent_agents, worker, hops, published, gateway_calls>>

ExecuteCommand ==
    /\ pc = "execute_command"
    /\ \E redis_up \in BOOLEAN :
        /\ published' = published \o Attempts(execute_command(state).events, redis_up)
        /\ IF FirstRaise(execute_command(state).events, redis_up) # 0
           THEN pc' = "raised" /\ UNCHANGED <<state, http>>
           ELSE /\ state' = ApplyUpdate(state, execute_command(state).update)
                /\ http' = astream_yield(http, "execute_command",
                                         execute_command(state).update, state')
                /\ pc' = "send_response"
    /\ UNCHANGED <<spc, sw, exec, max_concurrent_agents, worker, hops, gateway_calls>>

BuildPrompt ==
    /\ pc = "build_prompt"
    /\ state' = ApplyUpdate(state, build_prompt(state))
    /\ http' = astream_yield(http, "build_prompt", build_prompt(state), state')
    /\ pc' = "execute_ai"
    /\ UNCHANGED <<spc, sw, exec, max_concurrent_agents, worker, hops, published, gateway_calls>>

ExecuteAI ==
    /\ pc = "execute_ai"
    /\ \E gateway \in GatewayOutcomes, redis_up \in BOOLEAN :
        /\ published' = published \o Attempts(execute_ai(state, gateway).events, redis_up)
        /\ IF FirstRaise(execute_ai(state, gateway).events, redis_up) # 0
           THEN pc' = "raised" /\ UNCHANGED <<state, gateway_calls, http>>
           ELSE /\ state' = ApplyUpdate(state, execute_ai(state, gateway).update)
                /\ http' = astream_yield(http, "execute_ai",
                                         execute_ai(state, gateway).update, state')
                /\ gateway_calls' = gateway_calls + execute_ai(state, gateway).calls
                /\ pc' = "send_response"
    /\ UNCHANGED <<spc, sw, exec, max_concurrent_agents, worker, hops>>

\* swarm_node up to its "await swarm_graph.ainvoke(swarm_state.model_dump())"
SwarmCall ==
    /\ pc = "swarm_subgraph"
    /\ spc = "idle"
    /\ sw' = create_swarm_state(swarm_request(state))
    /\ spc' = "decompose"
    /\ hops' = NoHops
    /\ UNCHANGED <<pc, state, exec, max_concurrent_agents, http, worker, published, gateway_calls>>

\* swarm_node from the return (or the exception) of the swarm graph
SwarmReturn ==
    /\ pc = "swarm_subgraph"
    /\ spc \in {"END", "raised"}
    /\ state' = ApplyUpdate(state, swarm_node_update(sw, spc = "raised"))
    /\ http' = astream_yield(http, "swarm_subgraph",
                             swarm_node_update(sw, spc = "raised"), state')
    /\ pc' = "send_response"
    /\ spc' = "returned"
    /\ UNCHANGED <<sw, exec, max_concurrent_agents, worker, hops, published, gateway_calls>>

HandleError ==
    /\ pc = "error_handler"
    /\ \E redis_up \in BOOLEAN :
        /\ published' = published \o Attempts(handle_error(state).events, redis_up)
        /\ IF FirstRaise(handle_error(state).events, redis_up) # 0
           THEN pc' = "raised" /\ UNCHANGED <<state, http>>
           ELSE /\ state' = ApplyUpdate(state, handle_error(state).update)
                /\ http' = astream_yield(http, "error_handler",
                                         handle_error(state).update, state')
                /\ pc' = "send_response"
    /\ UNCHANGED <<spc, sw, exec, max_concurrent_agents, worker, hops, gateway_calls>>

SendResponse ==
    /\ pc = "send_response"
    /\ \E redis_up \in BOOLEAN :
        /\ published' = published \o Attempts(send_response(state).events, redis_up)
        /\ IF FirstRaise(send_response(state).events, redis_up) # 0
           THEN pc' = "raised" /\ UNCHANGED <<state, http>>
           ELSE /\ state' = ApplyUpdate(state, send_response(state).update)
                /\ http' = astream_yield(http, "send_response",
                                         send_response(state).update, state')
                /\ pc' = "END"
    /\ UNCHANGED <<spc, sw, exec, max_concurrent_agents, worker, hops, gateway_calls>>

Next ==
    \/ ParseInput
    \/ LoadContext
    \/ RouteInput
    \/ ExecuteCommand
    \/ BuildPrompt
    \/ ExecuteAI
    \/ SwarmCall
    \/ Decompose
    \/ SwarmNext
    \/ SwarmReturn
    \/ SendResponse

\* send_response applied once more to the state it has left.
SendResponseAgain ==
    /\ pc = "END"
    /\ \E redis_up \in BOOLEAN :
        /\ published' = published \o Attempts(send_response(state).events, redis_up)
        /\ IF FirstRaise(send_response(state).events, redis_up) # 0
           THEN pc' = "raised" /\ UNCHANGED state
           ELSE /\ state' = ApplyUpdate(state, send_response(state).update)
                /\ pc' = "END_again"
    /\ UNCHANGED <<spc, sw, exec, max_concurrent_agents, http, worker, hops, gateway_calls>>

\* The nodes of the graph, error_handler included.  No run that starts at
\* parse_input is routed to error_handler (RouteInput leaves error unset and
\* input_type classified), so it is a step of NodeNext only.
NodeNext == Next \/ HandleError \/ SendResponseAgain

(***************************************************************************)
(* One request to the conversation graph.                                  *)
(***************************************************************************)
MessageAtoms == {SLASH, SP, "help", "HELP", "swarm", "foo", "hi"}

EnumeratedMessages == UNION {[1..n -> MessageAtoms] : n \in 0..MaxMsgLen}

CuratedMessages ==
    {<<SLASH, "help">>,
     <<SP, SLASH, "help", SP>>,
     <<SLASH, "Stop">>,
     <<SLASH, "status">>,
     <<SLASH, "getcwd">>,
     <<SLASH, "repos">>,
     <<SLASH, "clone", SP, "url">>,
     <<SLASH, "swarm", SP, "Build", SP, "a", SP, "login", SP, "API">>,
     <<SLASH, "swarm", SP, "Review", SP, "the", SP, "code">>,
     <<SLASH, "swarm", SP, "hello">>,
     <<SLASH, "command-invoke", SP, "plan", SP, DQ, "Add", SP, "dark", SP, "mode", DQ>>,
     <<SLASH, "plan", SP, SQ, "a", SP, "b", SQ, SP, "c">>,
     <<"What", SP, "is", SP, "the", SP, "capital", SP, "of", SP, "France?">>}

Messages == CuratedMessages \cup EnumeratedMessages

OptionalContexts == {None, Some(<<"context">>)}

\* The thread's earlier turns, kept by the checkpointer.
Histories ==
    {<<>>, <<HumanMessage(<<"earlier">>), AIMessage(<<"earlier reply">>)>>}

IdleSwarm == create_swarm_state(<<>>)

Init ==
    /\ pc = "parse_input"
    /\ \E message \in Messages, issue \in OptionalContexts,
          thread \in OptionalContexts, history \in Histories :
        state = [create_conversation_state(message, issue, thread)
                    EXCEPT !.messages = history]
    /\ spc = "idle"
    /\ sw = IdleSwarm
    /\ exec = IdleExec
    /\ max_concurrent_agents \in ConcurrencySettings
    /\ hops = NoHops
    /\ published = <<>>
    /\ gateway_calls = 0
    /\ worker = IdleWorker
    /\ http = NoHttp

Spec == Init /\ [][Next]_vars

FairSpec == Spec /\ WF_vars(Next)

(***************************************************************************)
(* The nodes applied to hand-built states, as tests/test_graph.py does:    *)
(* a state from create_conversation_state with fields assigned, handed to  *)
(* any node, the graph's edges followed from there.                        *)
(***************************************************************************)
NodeNames ==
    {"parse_input", "load_context", "route_input", "execute_command",
     "build_prompt", "execute_ai", "swarm_subgraph", "error_handler",
     "send_response"}

HandBuiltMessages ==
    {<<SLASH, "help">>,
     <<SLASH, "swarm", SP, "Review", SP, "the", SP, "code">>,
     <<SLASH, "plan", SP, "x">>,
     <<"hi">>}

UnitInit ==
    /\ pc \in NodeNames
    /\ \E message \in HandBuiltMessages,
          input_type \in {None} \cup {Some(t) : t \in InputType},
          error \in {None, Some(<<"boom">>)},
          parsed \in BOOLEAN :
        state = [create_conversation_state(message, None, None)
                    EXCEPT !.input_type = input_type,
                           !.error = error,
                           !.parsed_command =
                                IF parsed THEN parse_command(message).value ELSE None,
                           !.command_name =
                                IF parsed /\ parse_command(message).value # None
                                THEN Some(parse_command(message).value[1].command)
                                ELSE None]
    /\ spc = "idle"
    /\ sw = IdleSwarm
    /\ exec = IdleExec
    /\ max_concurrent_agents \in ConcurrencySettings
    /\ hops = NoHops
    /\ published = <<>>
    /\ gateway_calls = 0
    /\ worker = IdleWorker
    /\ http = NoHttp

UnitSpec == UnitInit /\ [][NodeNext]_vars

(***************************************************************************)
(* The Redis worker (services/redis_pubsub.py): subscribe_to_requests      *)
(* takes one message at a time from its subscription and awaits the        *)
(* handler before it takes the next.                                       *)
(***************************************************************************)
MaxDelivered == 2   \* messages the platform publishes in one run

WorkerTexts ==
    {<<SLASH, "help">>, <<"hi">>, <<SLASH, "swarm", SP, "Review", SP, "the", SP, "code">>,
     <<SLASH>>}

\* What the platform publishes on the request and control channels.
WorkerMessages ==
    {[channel |-> "request", type |-> "request", message |-> m] : m \in WorkerTexts}
    \cup {[channel |-> "control", type |-> "stop", message |-> <<>>],
          [channel |-> "control", type |-> "ping", message |-> <<>>],
          [channel |-> "request", type |-> "ping", message |-> <<>>],
          [channel |-> "request", type |-> "invalid_json", message |-> <<>>]}

\* The worker's pong as its own subscription to the control channel gets it.
OwnPong == [channel |-> "control", type |-> "pong", message |-> <<>>]

\* Redis hands a published message to the subscription.
ChannelDeliver ==
    /\ worker.delivered < MaxDelivered
    /\ \E m \in WorkerMessages :
        worker' = [worker EXCEPT !.inbox = Append(@, m), !.delivered = @ + 1]
    /\ UNCHANGED <<pc, state, spc, sw, exec, max_concurrent_agents, http, hops, published,
                   gateway_calls>>

\* A control message of either heartbeat type taken for a ping.
is_ping_any_heartbeat(m) == m.channel = "control" /\ m.type \in {"ping", "pong"}

\* "if channel == control_channel: if data.get("type") == PING"
is_ping(m) == m.channel = "control" /\ m.type = "ping"

\* One turn of "async for message in pubsub.listen()" up to the handler's
\* first await.  Data that json.loads rejects is logged.  A ping on the
\* control channel is answered with a pong on that channel, which comes
\* back to the worker's own subscription.  Everything else goes to the
\* handler: a stop is logged, a type other than "request" is logged as
\* unknown, a request starts the conversation graph.
WorkerReceive ==
    /\ pc = "idle"
    /\ worker.task = "listening"
    /\ worker.handling = None
    /\ worker.inbox # <<>>
    /\ LET m == Head(worker.inbox)
       IN  IF m.type = "invalid_json"
           THEN /\ worker' = [worker EXCEPT !.inbox = Tail(@)]
                /\ UNCHANGED <<pc, state, published, spc, sw, exec, hops>>
           ELSE IF is_ping(m)
           THEN /\ \E redis_up \in BOOLEAN :
                    /\ published' =
                            published \o <<Attempt(Event("pong", <<>>), redis_up)>>
                    /\ worker' = [worker EXCEPT
                                    !.inbox = IF redis_up THEN Append(Tail(@), OwnPong)
                                              ELSE Tail(@)]
                /\ UNCHANGED <<pc, state, spc, sw, exec, hops>>
           ELSE IF m.type = "stop"
           THEN /\ worker' = [worker EXCEPT !.inbox = Tail(@)]
                /\ UNCHANGED <<pc, state, published, spc, sw, exec, hops>>
           ELSE IF m.type # "request"
           THEN /\ worker' = [worker EXCEPT !.inbox = Tail(@)]
                /\ UNCHANGED <<pc, state, published, spc, sw, exec, hops>>
           ELSE /\ worker' = [worker EXCEPT !.inbox = Tail(@), !.handling = Some(m)]
                /\ state' = create_conversation_state(m.message, None, None)
                /\ pc' = "parse_input"
                /\ spc' = "idle"
                /\ sw' = IdleSwarm
                /\ exec' = IdleExec
                /\ hops' = NoHops
                /\ UNCHANGED published
    /\ UNCHANGED <<max_concurrent_agents, http, gateway_calls>>

\* _handle_request whose exception leaves the listen loop.
WorkerFinish_loop_ends ==
    /\ worker.handling # None
    /\ pc \in {"END", "raised"}
    /\ IF pc = "raised"
       THEN \E redis_up \in BOOLEAN :
                published' = published
                    \o Attempts(<<Event("error", <<"request failed">>)>>, redis_up)
       ELSE UNCHANGED published
    /\ worker' = [worker EXCEPT !.handling = None,
                                !.task = IF pc = "raised" THEN "finished" ELSE @,
                                !.alive = IF pc = "raised" THEN @ - 1 ELSE @]
    /\ pc' = "idle"
    /\ UNCHANGED <<state, spc, sw, exec, max_concurrent_agents, http, hops, gateway_calls>>

\* graph.ainvoke has returned or raised: _handle_request ends, publishing an
\* error event in its except branch.
WorkerFinish ==
    /\ worker.handling # None
    /\ pc \in {"END", "raised"}
    /\ IF pc = "raised"
       THEN \E redis_up \in BOOLEAN :
                published' = published
                    \o Attempts(<<Event("error", <<"request failed">>)>>, redis_up)
       ELSE UNCHANGED published
    /\ worker' = [worker EXCEPT !.handling = None]
    /\ pc' = "idle"
    /\ UNCHANGED <<state, spc, sw, exec, max_concurrent_agents, http, hops, gateway_calls>>

\* The handler after the lifespan's "await request_handler.start()".
StartedWorker == [IdleWorker EXCEPT !.running = TRUE, !.task = "listening", !.alive = 1]

WorkerNext ==
    \/ ChannelDeliver
    \/ WorkerReceive
    \/ WorkerFinish
    \/ Next

WorkerInit ==
    /\ pc = "idle"
    /\ state = create_conversation_state(<<>>, None, None)
    /\ spc = "idle"
    /\ sw = IdleSwarm
    /\ exec = IdleExec
    /\ max_concurrent_agents = SmallConcurrency
    /\ hops = NoHops
    /\ published = <<>>
    /\ gateway_calls = 0
    /\ worker = StartedWorker
    /\ http = NoHttp

WorkerSpec == WorkerInit /\ [][WorkerNext]_vars

(***************************************************************************)
(* The life of the worker (RedisRequestHandler.start, stop, _listen):      *)
(* worker.running is _running, worker.task the state of the task in _task, *)
(* worker.alive the number of listener tasks that have not finished.       *)
(* start and stop are called one after the other (the lifespan handler).   *)
(***************************************************************************)
\* start: nothing if _running, else a new task that subscribes.
HandlerStart ==
    /\ worker' = IF worker.running THEN worker
                 ELSE [worker EXCEPT !.running = TRUE, !.task = "listening",
                                     !.alive = @ + 1, !.inbox = <<>>]
    /\ UNCHANGED <<pc, state, spc, sw, exec, max_concurrent_agents, hops, published,
                   gateway_calls, http>>

\* stop: _running = False; the task, if there is one, is cancelled and
\* awaited: the CancelledError ends the handler and the graph run it is in,
\* and the loop's finally unsubscribes.
HandlerStop ==
    /\ IF worker.task = "listening"
       THEN /\ worker' = [worker EXCEPT !.running = FALSE, !.task = "finished",
                                        !.alive = @ - 1, !.handling = None,
                                        !.inbox = <<>>]
            /\ pc' = "idle"
            /\ spc' = "idle"
            /\ sw' = IdleSwarm
            /\ exec' = IdleExec
       ELSE /\ worker' = [worker EXCEPT !.running = FALSE]
            /\ UNCHANGED <<pc, spc, sw, exec>>
    /\ UNCHANGED <<state, max_concurrent_agents, hops, published, gateway_calls, http>>

\* pubsub.subscribe or pubsub.listen raises (the connection to Redis is
\* refused or lost): the exception leaves subscribe_to_requests and
\* _listen, and the task is finished.  Nothing writes _running.
ListenRaises ==
    /\ worker.task = "listening"
    /\ worker.handling = None
    /\ pc = "idle"
    /\ worker' = [worker EXCEPT !.task = "finished", !.alive = @ - 1, !.inbox = <<>>]
    /\ UNCHANGED <<pc, state, spc, sw, exec, max_concurrent_agents, hops, published,
                   gateway_calls, http>>

\* A message reaches the worker only through a live subscription.
SubscriptionDeliver ==
    /\ worker.task = "listening"
    /\ ChannelDeliver

LifecycleNext ==
    \/ HandlerStart
    \/ HandlerStop
    \/ ListenRaises
    \/ SubscriptionDeliver
    \/ WorkerReceive
    \/ WorkerFinish
    \/ Next

\* The module's handler as constructed: not started.
LifecycleInit ==
    /\ pc = "idle"
    /\ state = create_conversation_state(<<>>, None, None)
    /\ spc = "idle"
    /\ sw = IdleSwarm
    /\ exec = IdleExec
    /\ max_concurrent_agents = SmallConcurrency
    /\ hops = NoHops
    /\ published = <<>>
    /\ gateway_calls = 0
    /\ worker = IdleWorker
    /\ http = NoHttp

LifecycleSpec == LifecycleInit /\ [][LifecycleNext]_vars

(***************************************************************************)
(* POST /swarm (main.py, execute_swarm): the swarm graph run on its own,   *)
(* from decompose_task, and the SwarmResponse built from its final state.  *)
(***************************************************************************)
SwarmRequests ==
    {<<"Build", SP, "a", SP, "login", SP, "API">>,
     <<"Review", SP, "the", SP, "code">>,
     <<"hello">>}

SwarmResponse(final_state) ==
    [status |-> IF final_state.phase = "completed" THEN "completed" ELSE "failed",
     summary |-> IF Truthy(final_state.synthesized_summary)
                 THEN final_state.synthesized_summary[1]
                 ELSE <<"Swarm execution completed">>,
     agent_count |-> Len(final_state.sub_tasks),
     completed_count |-> Len(SelectSeq(final_state.completed_results, IsSuccess)),
     failed_count |-> Len(SelectSeq(final_state.completed_results, IsFailure))]

\* execute_swarm from the return (or the exception) of graph.ainvoke
ExecuteSwarmReturn ==
    /\ http.endpoint = "swarm"
    /\ spc \in {"END", "raised"}
    /\ http' = [http EXCEPT
            !.endpoint = "swarm_returned",
            !.response = IF spc = "raised"
                         THEN Some([http_status |-> 500])
                         ELSE Some([http_status |-> 200] @@ SwarmResponse(sw))]
    /\ UNCHANGED <<pc, state, spc, sw, exec, max_concurrent_agents, hops, published,
                   gateway_calls, worker>>

SwarmEndpointNext == Decompose \/ SwarmNext \/ ExecuteSwarmReturn

SwarmEndpointInit ==
    /\ pc = "swarm_graph"
    /\ state = NoConversation
    /\ spc = "decompose"
    /\ \E request \in SwarmRequests : sw = create_swarm_state(request)
    /\ exec = IdleExec
    /\ max_concurrent_agents \in ConcurrencySettings
    /\ hops = NoHops
    /\ published = <<>>
    /\ gateway_calls = 0
    /\ worker = IdleWorker
    /\ http = [NoHttp EXCEPT !.endpoint = "swarm"]

SwarmEndpointSpec == SwarmEndpointInit /\ [][SwarmEndpointNext]_vars

(***************************************************************************)
(* execute_command on hand-built states, one per deterministic command     *)
(* name and one without a parsed command, followed by send_response as the *)
(* graph's edge has it.                                                    *)
(***************************************************************************)
CommandArgs == {<<>>, <<<<"x">>>>}

CommandInit ==
    /\ pc = "execute_command"
    /\ \E command \in DETERMINISTIC_COMMANDS, args \in CommandArgs,
          parsed \in BOOLEAN, loaded \in BOOLEAN :
        state = [create_conversation_state(<<SLASH>> \o command, None, None)
                    EXCEPT !.input_type = Some("deterministic_command"),
                           !.parsed_command =
                                IF parsed
                                THEN Some(ParsedCommand(command, args, <<SLASH>> \o command))
                                ELSE None,
                           !.command_name = IF parsed THEN Some(command) ELSE None,
                           !.context = IF loaded THEN load_context(@).context ELSE None,
                           !.phase = "command_routing"]
    /\ spc = "idle"
    /\ sw = IdleSwarm
    /\ exec = IdleExec
    /\ max_concurrent_agents = DefaultMaxConcurrentAgents
    /\ hops = NoHops
    /\ published = <<>>
    /\ gateway_calls = 0
    /\ worker = IdleWorker
    /\ http = NoHttp

CommandNext == ExecuteCommand \/ SendResponse

CommandSpec == CommandInit /\ [][CommandNext]_vars

(***************************************************************************)
(* POST /conversation/stream (main.py): event_generator runs the graph     *)
(* with graph.astream, yields a node_update event per update and one event *)
(* more when the stream has ended or an exception has reached it.          *)
(***************************************************************************)
\* event_generator with "yield complete" in a finally clause.
terminal_events_finally(raised, thread_id) ==
    IF raised
    THEN <<[event |-> "error", error |-> "str(e)"],
           [event |-> "complete", thread_id |-> thread_id]>>
    ELSE <<[event |-> "complete", thread_id |-> thread_id]>>

\* The end of the try block, or the except branch.
terminal_events(raised, thread_id) ==
    IF raised THEN <<[event |-> "error", error |-> "str(e)"]>>
    ELSE <<[event |-> "complete", thread_id |-> thread_id]>>

StreamEnd ==
    /\ http.endpoint = "stream"
    /\ pc \in {"END", "raised"}
    /\ http' = [http EXCEPT
                    !.events = @ \o terminal_events(pc = "raised", http.thread_id),
                    !.endpoint = "stream_closed"]
    /\ UNCHANGED <<pc, state, spc, sw, exec, max_concurrent_agents, hops, published,
                   gateway_calls, worker>>

StreamNext == Next \/ StreamEnd

StreamMessages == CuratedMessages \cup {<<>>, <<SLASH>>, <<SLASH, SP>>, <<"hi">>}

StreamInit ==
    /\ pc = "parse_input"
    /\ \E message \in StreamMessages, history \in Histories :
        state = [create_conversation_state(message, None, None)
                    EXCEPT !.messages = history]
    /\ spc = "idle"
    /\ sw = IdleSwarm
    /\ exec = IdleExec
    /\ max_concurrent_agents \in ConcurrencySettings
    /\ hops = NoHops
    /\ published = <<>>
    /\ gateway_calls = 0
    /\ worker = IdleWorker
    /\ \E thread_id \in ThreadIds :
        http = [NoHttp EXCEPT !.endpoint = "stream", !.thread_id = Some(thread_id)]

StreamSpec == StreamInit /\ [][StreamNext]_vars

(***************************************************************************)
(* POST /conversation and GET /thread/{thread_id}/state (main.py) with the *)
(* checkpointer: a run saves its channels under its thread id, the next    *)
(* run of the thread starts from them.                                     *)
(***************************************************************************)
MaxRequests == 2    \* POST /conversation requests in one run of the service

ThreadMessages == {<<SLASH, "help">>, <<SLASH, "status">>, <<SLASH>>}

\* The channels a run starts from: the input written over the thread's
\* checkpoint; messages (add_messages) keeps the thread's earlier turns.
run_input(h, thread_id, input) ==
    IF h.enable_checkpointing /\ h.checkpoints[thread_id] # None
    THEN [input EXCEPT !.messages = h.checkpoints[thread_id][1].messages \o @]
    ELSE input

\* process_conversation up to "await graph.ainvoke(...)"
PostConversation ==
    /\ pc = "idle"
    /\ http.requests < MaxRequests
    /\ \E message \in ThreadMessages, thread_id \in ThreadIds :
        /\ state' = run_input(http, thread_id,
                        create_conversation_state(message, None, None))
        /\ http' = [http EXCEPT
                !.endpoint = "conversation",
                !.thread_id = Some(thread_id),
                !.requests = @ + 1,
                !.response = None,
                !.checkpoints = IF http.enable_checkpointing
                                THEN [@ EXCEPT ![thread_id] = Some(state')]
                                ELSE @]
    /\ pc' = "parse_input"
    /\ UNCHANGED <<spc, sw, exec, max_concurrent_agents, hops, published,
                   gateway_calls, worker>>

\* process_conversation from the return of graph.ainvoke, or its exception
ConversationReturn ==
    /\ http.endpoint = "conversation"
    /\ pc \in {"END", "raised"}
    /\ http' = [http EXCEPT !.response =
            IF pc = "raised" THEN Some([status |-> 500])
            ELSE Some([status |-> 200, thread_id |-> http.thread_id[1],
                       phase |-> state.phase, responses |-> state.responses_sent,
                       error |-> state.error])]
    /\ pc' = "idle"
    /\ UNCHANGED <<state, spc, sw, exec, max_concurrent_agents, hops, published,
                   gateway_calls, worker>>

\* get_thread_state that asks the store for its latest checkpoint, of
\* whatever thread.
get_thread_state_any(h, thread_id, serializable) ==
    IF ~h.enable_checkpointing
    THEN [status |-> 400, detail |-> "Checkpointing not enabled"]
    ELSE IF \A t \in ThreadIds : h.checkpoints[t] = <<>>
    THEN [status |-> 404, detail |-> "Thread not found"]
    ELSE [status |-> 200, thread_id |-> thread_id,
          state |-> h.checkpoints[CHOOSE t \in ThreadIds : h.checkpoints[t] # <<>>][1]]

\* get_thread_state: checkpointer.aget looks the thread id up.  What
\* "checkpoint.values" gives, and whether it can be serialized, is the
\* checkpoint library's: the answer is the thread's channels or a 500.
get_thread_state(h, thread_id, serializable) ==
    IF ~h.enable_checkpointing
    THEN [status |-> 400, detail |-> "Checkpointing not enabled"]
    ELSE IF h.checkpoints[thread_id] = None
    THEN [status |-> 404, detail |-> "Thread not found"]
    ELSE IF serializable
    THEN [status |-> 200, thread_id |-> thread_id,
          state |-> h.checkpoints[thread_id][1]]
    ELSE [status |-> 500, detail |-> "Internal Server Error"]

GetThreadState ==
    /\ pc = "idle"
    /\ \E thread_id \in ThreadIds, serializable \in BOOLEAN :
        http' = [http EXCEPT
                    !.endpoint = "thread_state",
                    !.thread_id = Some(thread_id),
                    !.response = Some(get_thread_state(http, thread_id, serializable))]
    /\ UNCHANGED <<pc, state, spc, sw, exec, max_concurrent_agents, hops, published,
                   gateway_calls, worker>>

ThreadNext ==
    \/ PostConversation
    \/ ParseInput
    \/ LoadContext
    \/ RouteInput
    \/ ExecuteCommand
    \/ SendResponse
    \/ ConversationReturn
    \/ GetThreadState

ThreadInit ==
    /\ pc = "idle"
    /\ state = create_conversation_state(<<>>, None, None)
    /\ spc = "idle"
    /\ sw = IdleSwarm
    /\ exec = IdleExec
    /\ max_concurrent_agents = DefaultMaxConcurrentAgents
    /\ hops = NoHops
    /\ published = <<>>
    /\ gateway_calls = 0
    /\ worker = IdleWorker
    /\ \E enable_checkpointing \in BOOLEAN :
        http = [NoHttp EXCEPT !.endpoint = "idle",
                              !.enable_checkpointing = enable_checkpointing]

ThreadSpec == ThreadInit /\ [][ThreadNext]_vars

(***************************************************************************)
(* The checkpointer module (checkpointer/postgres.py): the global          *)
(* _checkpointer, set by setup_checkpointer, which the lifespan handler    *)
(* calls at startup and get_checkpointer calls when the global is None     *)
(* (an app served without its lifespan, as the tests' ASGI client does).   *)
(* http.checkpointer is the global, a saver being named by the number of   *)
(* the setup_checkpointer call that made it; every await is a point where  *)
(* the other coroutines run.                                               *)
(***************************************************************************)
\* get_checkpointer up to its return or to the first await of
\* setup_checkpointer
get_checkpointer_call(h, c) ==
    IF ~h.enable_checkpointing
    THEN [h EXCEPT !.calls[c] = [at |-> "returned", saver |-> None, returned |-> None]]
    ELSE IF h.checkpointer = None
    THEN [h EXCEPT !.setups = @ + 1,
                   !.calls[c] = [at |-> "aenter", saver |-> Some(h.setups + 1),
                                 returned |-> None]]
    ELSE [h EXCEPT !.calls[c] = [at |-> "returned", saver |-> None,
                                 returned |-> h.checkpointer]]

GetCheckpointer ==
    /\ pc = "serving"
    /\ \E c \in Callers :
        /\ http.calls[c].at = "idle"
        \* the lifespan handler starts the worker
        /\ c = "worker" => http.lifespan
        /\ http' = get_checkpointer_call(http, c)
    /\ UNCHANGED <<pc, state, spc, sw, exec, max_concurrent_agents, hops, published,
                   gateway_calls, worker>>

\* "_checkpointer = await _checkpointer_cm.__aenter__()" resumes
SetupAssign ==
    /\ pc = "serving"
    /\ \E c \in Callers :
        /\ http.calls[c].at = "aenter"
        /\ http' = [http EXCEPT !.checkpointer = http.calls[c].saver,
                                !.calls[c].at = "setup"]
    /\ UNCHANGED <<pc, state, spc, sw, exec, max_concurrent_agents, hops, published,
                   gateway_calls, worker>>

\* "await _checkpointer.setup()" resumes; "return _checkpointer" reads the
\* global.
SetupReturn ==
    /\ pc = "serving"
    /\ \E c \in Callers :
        /\ http.calls[c].at = "setup"
        /\ http' = [http EXCEPT !.calls[c].at = "returned",
                                !.calls[c].returned = http.checkpointer]
    /\ UNCHANGED <<pc, state, spc, sw, exec, max_concurrent_agents, hops, published,
                   gateway_calls, worker>>

CheckpointerNext == GetCheckpointer \/ SetupAssign \/ SetupReturn

\* The app when it starts to serve: the lifespan handler has run
\* setup_checkpointer (if checkpointing is enabled), or has not run at all.
CheckpointerInit ==
    /\ pc = "serving"
    /\ state = NoConversation
    /\ spc = "idle"
    /\ sw = IdleSwarm
    /\ exec = IdleExec
    /\ max_concurrent_agents = DefaultMaxConcurrentAgents
    /\ hops = NoHops
    /\ published = <<>>
    /\ gateway_calls = 0
    /\ worker = IdleWorker
    /\ \E enable_checkpointing \in BOOLEAN, lifespan \in BOOLEAN :
        http = [NoHttp EXCEPT
                    !.endpoint = "serving",
                    !.enable_checkpointing = enable_checkpointing,
                    !.lifespan = lifespan,
                    !.checkpointer = IF lifespan /\ enable_checkpointing
                                     THEN Some(1) ELSE None,
                    !.setups = IF lifespan /\ enable_checkpointing THEN 1 ELSE 0]

CheckpointerSpec == CheckpointerInit /\ [][CheckpointerNext]_vars

(***************************************************************************)
(* The channels of the events.  A request carries a conversation id; the   *)
(* HTTP facade (ConversationRequest, conversation_id: str) takes any       *)
(* string, the worker's _handle_request drops a request whose id is        *)
(* missing or empty; every event of the run is published with the id of    *)
(* its request.                                                            *)
(***************************************************************************)
MaxPublished == 2   \* events published in one run of the service

\* What a request can carry as conversation_id: nothing, "", an id.
RequestConversationIds ==
    {None, Some(<<>>), Some(<<"telegram-123">>), Some(<<"github-7">>)}

\* ConversationRequest: conversation_id: str is required, any str passes.
conversation_request_valid(conversation_id) == conversation_id # None

\* _handle_request: "if not conversation_id: return"
worker_request_valid(conversation_id) == Truthy(conversation_id)

\* POST /conversation: a request that fails validation is answered 422;
\* the nodes of an accepted one publish with state.conversation_id.
FacadePublish ==
    /\ pc = "publish"
    /\ Len(published) < MaxPublished
    /\ \E conversation_id \in RequestConversationIds, event_type \in RedisEventType,
          redis_up \in BOOLEAN :
        IF conversation_request_valid(conversation_id)
        THEN /\ published' = Append(published,
                    Publication(event_type, conversation_id[1], redis_up))
             /\ http' = [http EXCEPT !.response = Some([status |-> 200])]
        ELSE /\ http' = [http EXCEPT !.response = Some([status |-> 422])]
             /\ UNCHANGED published
    /\ UNCHANGED <<pc, state, spc, sw, exec, max_concurrent_agents, hops,
                   gateway_calls, worker>>

\* A request taken by the worker: dropped, or run with its conversation id.
WorkerPublish ==
    /\ pc = "publish"
    /\ Len(published) < MaxPublished
    /\ \E conversation_id \in RequestConversationIds, event_type \in RedisEventType,
          redis_up \in BOOLEAN :
        IF worker_request_valid(conversation_id)
        THEN /\ published' = Append(published,
                    Publication(event_type, conversation_id[1], redis_up))
             /\ worker' = [worker EXCEPT !.delivered = 1]
        ELSE /\ worker' = [worker EXCEPT !.delivered = 0]
             /\ UNCHANGED published
    /\ UNCHANGED <<pc, state, spc, sw, exec, max_concurrent_agents, hops,
                   gateway_calls, http>>

ChannelNext == FacadePublish \/ WorkerPublish

ChannelInit ==
    /\ pc = "publish"
    /\ state = NoConversation
    /\ spc = "idle"
    /\ sw = IdleSwarm
    /\ exec = IdleExec
    /\ max_concurrent_agents = DefaultMaxConcurrentAgents
    /\ hops = NoHops
    /\ published = <<>>
    /\ gateway_calls = 0
    /\ worker = IdleWorker
    /\ http = NoHttp

ChannelSpec == ChannelInit /\ [][ChannelNext]_vars

(***************************************************************************)
(* Properties                                                              *)
(***************************************************************************)

\* C1: Swarm termination.  For every plan (dependency lists acyclic, cyclic
\* or pointing at ids that never get a result) and every outcome of every
\* agent, the swarm graph reaches synthesize_results and runs to its END, and
\* execute_agents runs at most once per sub-task on the way.
SwarmTerminates ==
    /\ <>(spc = "END")
    /\ [](hops.execute <= Len(sw.sub_tasks) /\ hops.spawn <= Len(sw.sub_tasks))

\* A plan whose last sub-task is blocked for ever has been synthesized after
\* some execute round.
SwarmTerminatesWitness ==
    /\ spc = "END"
    /\ sw.synthesized_summary # None
    /\ hops.execute = Len(sw.sub_tasks) - 1
    /\ hops.execute > 0
    /\ \E i \in DOMAIN sw.sub_tasks : sw.sub_tasks[i].status = "pending"

HasResult(s, id) ==
    \E i \in DOMAIN s.completed_results : s.completed_results[i].sub_task_id = id

HasSuccess(s, id) ==
    \E i \in DOMAIN s.completed_results :
        s.completed_results[i].sub_task_id = id /\ s.completed_results[i].success

HasFailedResult(s, id) ==
    \E i \in DOMAIN s.completed_results :
        s.completed_results[i].sub_task_id = id /\ ~s.completed_results[i].success

\* C2: Promotion requires upstream success.  A sub-task that has left
\* pending has, for each of its dependencies, a result with success = true in
\* completed_results; the dependent of a failed sub-task never gets ready or
\* running.
PromotionRequiresSuccess ==
    \A i \in DOMAIN sw.sub_tasks :
        sw.sub_tasks[i].status # "pending" =>
            \A dep \in sw.sub_tasks[i].dependencies : HasSuccess(sw, dep)

\* C3: A sub-task that has left pending has, for each id of its dependency
\* list, an AgentResult with that sub_task_id in completed_results.
DependenciesHaveResults ==
    \A i \in DOMAIN sw.sub_tasks :
        sw.sub_tasks[i].status # "pending" =>
            \A dep \in sw.sub_tasks[i].dependencies : HasResult(sw, dep)

\* A sub-task with a dependency has been promoted and has run, in a plan
\* that also holds a sub-task blocked for ever.
DependenciesHaveResultsWitness ==
    /\ \E i \in DOMAIN sw.sub_tasks :
        /\ sw.sub_tasks[i].dependencies # {}
        /\ sw.sub_tasks[i].status \in {"completed", "failed"}
    /\ \E i \in DOMAIN sw.sub_tasks :
        /\ sw.sub_tasks[i].status = "pending"
        /\ spc = "END"

\* C4: Status is one-directional.  In every step a sub-task keeps its status,
\* or goes from pending or ready to running (spawn_agents makes a pending
\* task ready and a ready task running in one run of the node), or from
\* running to completed or failed; a completed or failed sub-task keeps its
\* status.
StatusOneDirectional ==
    [][\A i \in DOMAIN sw.sub_tasks :
        LET before == sw.sub_tasks[i].status
            after == sw'.sub_tasks[i].status
        IN  \/ after = before
            \/ before \in {"pending", "ready"} /\ after = "running"
            \/ before = "running" /\ after \in {"completed", "failed"}]_vars

\* A failed sub-task's dependent has run after it, and both are terminal.
StatusOneDirectionalWitness ==
    \E i, j \in DOMAIN sw.sub_tasks :
        /\ sw.sub_tasks[i].status = "failed"
        /\ sw.sub_tasks[i].id \in sw.sub_tasks[j].dependencies
        /\ sw.sub_tasks[j].status = "completed"
        /\ spc = "spawn"

\* C5: Failure is local.  The swarm graph never raises; when execute_agents
\* has joined a batch, every sub-task of the batch has its AgentResult in
\* completed_results, the failed ones included; and the swarm node returns a
\* swarm_result with phase swarm_completed and error unset.
FailureIsLocal ==
    /\ spc # "raised"
    /\ (~exec.active =>
            \A t \in Batch(exec) : HasResult(sw, t))
    /\ (spc = "returned" =>
            /\ state.swarm_result # None
            /\ state.error = None
            /\ (pc = "send_response" => state.phase = "swarm_completed"))

\* The swarm node has returned from a parallel plan in which one agent
\* failed and its siblings succeeded.
FailureIsLocalWitness ==
    /\ spc = "returned"
    /\ pc = "send_response"
    /\ sw.strategy = Some("parallel")
    /\ state.swarm_result # None
    /\ state.swarm_result[1].failed_count = 1
    /\ state.swarm_result[1].completed_count = 2

\* C6: Bounded parallelism.  At most max_concurrent_agents agents of a batch
\* are in flight at any instant, a task beyond the cap is queued, and a
\* batch with queued tasks is joined in the end with every task of it done.
BoundedParallelism ==
    /\ [](Cardinality(InFlight(exec)) <= max_concurrent_agents)
    /\ (exec.active /\ exec.waiters # <<>>)
            ~> (~exec.active /\ \A t \in Batch(exec) : exec.stage[t] = "done")

\* A batch larger than the cap: a task that waited has got the slot of a
\* finished one, and the cap is reached again.
BoundedParallelismWitness ==
    /\ exec.active
    /\ Len(exec.running_tasks) > max_concurrent_agents
    /\ Cardinality(InFlight(exec)) = max_concurrent_agents
    /\ exec.waiters = <<>>
    /\ \E t \in Batch(exec) : exec.stage[t] = "done"

\* C7: Full-barrier join.  While an agent of the batch has not finished, no
\* step changes the swarm state or moves the graph on: the update of
\* execute_agents, spawn and synthesize all wait for the last agent.
FullBarrierJoin ==
    [][(exec.active /\ \E t \in Batch(exec) : exec.stage[t] # "done")
            => (sw' = sw /\ spc' = spc)]_vars

\* A batch of several agents with different outcomes has been joined: its
\* results are in completed_results and running_agents is cleared.
FullBarrierJoinWitness ==
    /\ ~exec.active
    /\ Cardinality(Batch(exec)) > 1
    /\ \A t \in Batch(exec) : HasResult(sw, t)
    /\ \E t, u \in Batch(exec) : HasSuccess(sw, t) /\ HasFailedResult(sw, u)
    /\ sw.running_agents = <<>>
    /\ spc = "spawn"

CommandNameOf(text) == Lower(FirstWord(LStrip(Tail(text))))

HasCommandName(text) == StartsWithSlash(text) /\ LStrip(Tail(text)) # <<>>

\* What the classification calls for, for the text it is applied to.
ClassifiedAs(text) ==
    /\ ~StartsWithSlash(text) =>
        /\ state.input_type = Some("ai_query")
        /\ state.parsed_command = None
    /\ HasCommandName(text) =>
        /\ state.parsed_command # None
        /\ state.command_name = Some(CommandNameOf(text))
        /\ state.input_type = Some(
            IF CommandNameOf(text) \in DETERMINISTIC_COMMANDS THEN "deterministic_command"
            ELSE IF CommandNameOf(text) = <<"command-invoke">> THEN "codebase_command"
            ELSE IF CommandNameOf(text) = <<"swarm">> THEN "swarm_request"
            ELSE "template_command")
    /\ state.phase = "input_parsed"

\* C10: Input classification.  When parse_input has returned, a message not
\* starting with '/' is an AI query with no parsed command, a '/'-prefixed
\* message is classified by its lower-cased command name, and the phase is
\* input_parsed.
InputClassifiedAsWritten ==
    pc = "load_context" => ClassifiedAs(state.raw_message)

\* C10, amended: the classification is that of the message stripped of its
\* surrounding whitespace, and parse_input returns for every message that,
\* stripped, does not start with '/' or has a command name.
InputClassifiedAfterStrip ==
    /\ pc = "load_context" => ClassifiedAs(Strip(state.raw_message))
    /\ (~StartsWithSlash(Strip(state.raw_message))
            \/ HasCommandName(Strip(state.raw_message))) => pc # "raised"

\* A command behind leading whitespace has been classified as a command.
InputClassifiedAfterStripWitness ==
    /\ pc = "load_context"
    /\ state.raw_message = <<SP, SLASH, "help", SP>>
    /\ state.input_type = Some("deterministic_command")
    /\ state.phase = "input_parsed"

\* C11: Malformed command handling.  For a message that, stripped, starts
\* with '/' and has no command name, parse_input does not raise: it returns
\* an update with error set and phase error.
MalformedCommandIsParseError ==
    (StartsWithSlash(Strip(state.raw_message))
        /\ ~HasCommandName(Strip(state.raw_message))) =>
            /\ pc # "raised"
            /\ pc = "load_context" => (state.error # None /\ state.phase = "error")

\* The data of the RESPONSE events handed to publish_event, in order.
ResponsesPublished ==
    LET IsResponse(a) == a.type = "response"
        responses == SelectSeq(published, IsResponse)
    IN  [i \in DOMAIN responses |-> responses[i].data]

EveryRunResponds ==
    pc = "END" => state.responses_sent # <<>>

\* A run whose AI call failed has ended with a response.
EveryRunRespondsWitness ==
    /\ pc = "END"
    /\ state.ai_result # None
    /\ ~state.ai_result[1].success
    /\ state.messages = <<>>
    /\ state.responses_sent # <<>>

\* The publish_event calls a step adds.
NewAttempts == SubSeq(published', Len(published) + 1, Len(published'))

\* C14: Response emission is idempotent.  send_response applied again to the
\* state it has left (its own responses_sent and phase included) emits the
\* content it emitted the first time and leaves responses_sent as it was.
ResponseEmissionIdempotent ==
    [][(pc = "END" /\ pc' = "END_again") =>
        /\ state'.responses_sent = state.responses_sent
        /\ [i \in DOMAIN NewAttempts |-> NewAttempts[i].data] = state.responses_sent
        /\ \A i \in DOMAIN NewAttempts : NewAttempts[i].type = "response"]_vars

\* A state with a response has been answered twice.
ResponseEmissionIdempotentWitness ==
    /\ pc = "END_again"
    /\ state.responses_sent # <<>>
    /\ Len(ResponsesPublished) = 2
    /\ ResponsesPublished[1] = ResponsesPublished[2]

PhaseRank(phase) == CHOOSE i \in DOMAIN ExecutionPhase : ExecutionPhase[i] = phase

\* C15: The phase never regresses.  Every step keeps the phase, moves it
\* forward in the order of the phases, or moves it to error; and a phase
\* that is error or completed is never changed.
PhaseNeverRegresses ==
    [][/\ \/ PhaseRank(state'.phase) >= PhaseRank(state.phase)
          \/ state'.phase = "error"
       /\ state.phase \in {"error", "completed"} => state'.phase = state.phase]_vars

\* C16: AI executor failure semantics.  One run of execute_ai calls the
\* gateway at most once.  When the call fails (an ai_error event), error is
\* set, ai_result records success = false, the phase is error and the
\* history is unchanged; when it succeeds (an ai_complete event), the prompt
\* and the reply are appended to the history, in that order.
AiFailureSemantics ==
    [][(pc = "execute_ai" /\ pc' = "send_response") =>
        /\ gateway_calls' <= gateway_calls + 1
        /\ (\E i \in DOMAIN NewAttempts : NewAttempts[i].type = "ai_error") =>
            /\ gateway_calls' = gateway_calls + 1
            /\ Truthy(state'.error)
            /\ state'.ai_result # None
            /\ ~state'.ai_result[1].success
            /\ state'.phase = "error"
            /\ state'.messages = state.messages
        /\ (\E i \in DOMAIN NewAttempts : NewAttempts[i].type = "ai_complete") =>
            /\ gateway_calls' = gateway_calls + 1
            /\ state'.error = None
            /\ state'.ai_result # None
            /\ state'.ai_result[1].success
            /\ state'.phase = "ai_completed"
            /\ Len(state'.messages) = Len(state.messages) + 2
            /\ SubSeq(state'.messages, 1, Len(state.messages)) = state.messages
            /\ state'.messages[Len(state.messages) + 1] =
                    HumanMessage(state.prompt_to_send[1])
            /\ state'.messages[Len(state.messages) + 2].type = "ai"]_vars

\* The gateway has failed in a thread with a history: one call, the history
\* as it was.
AiFailureSemanticsWitness ==
    /\ pc = "send_response"
    /\ state.ai_result # None
    /\ ~state.ai_result[1].success
    /\ state.error # None
    /\ state.phase = "error"
    /\ gateway_calls = 1
    /\ Len(state.messages) = 2

\* C17: End-to-end gateway failure.  A run for a non-prefixed message with
\* no thread or issue context whose AI call failed has gone through
\* error_handler (an error event), ends with phase error, and its one
\* response is "An error occurred: " followed by the error text.
GatewayFailureEndToEnd ==
    (/\ pc = "END"
     /\ ~StartsWithSlash(Strip(state.raw_message))
     /\ state.thread_context = None
     /\ state.issue_context = None
     /\ state.ai_result # None
     /\ ~state.ai_result[1].success) =>
        /\ \E i \in DOMAIN published : published[i].type = "error"
        /\ state.phase = "error"
        /\ state.responses_sent = <<<<"An error occurred: ">> \o state.error[1]>>

\* C18: Out-of-band cancellation.  While a request is in the handler and a
\* stop has been delivered to the worker's subscription, no RESPONSE event
\* is published.
StopInterruptsProcessing ==
    [][(/\ worker.handling # None
        /\ \E i \in DOMAIN worker.inbox : worker.inbox[i].type = "stop") =>
            Len(ResponsesPublished') = Len(ResponsesPublished)]_vars

\* C19: The stop command.  On a deterministic command the graph is never at
\* build_prompt or execute_ai, the gateway is never called and no AI event
\* is published; execute_command is followed by send_response; and after
\* execute_command has run for stop, was_aborted and skip_ai are set and the
\* direct response is "Operation stopped.".
StopSkipsAi ==
    /\ [](state.input_type = Some("deterministic_command") =>
            /\ pc \notin {"build_prompt", "execute_ai"}
            /\ gateway_calls = 0
            /\ \A i \in DOMAIN published : published[i].type # "ai_start")
    /\ []((state.command_name = Some(<<"stop">>) /\ pc \in {"send_response", "END"}) =>
            /\ state.was_aborted
            /\ state.skip_ai
            /\ state.direct_response = Some(<<"Operation stopped.">>))
    /\ [][pc = "execute_command" => pc' = "send_response"]_vars

\* A run for "/Stop" has ended with the stop response and no gateway call.
StopSkipsAiWitness ==
    /\ pc = "END"
    /\ state.raw_message = <<SLASH, "Stop">>
    /\ state.was_aborted
    /\ state.responses_sent = <<<<"Operation stopped.">>>>
    /\ gateway_calls = 0
    /\ \E i \in DOMAIN published : published[i].type = "operation_stopped"

\* C20: Transport failure is best-effort.  Whether redis.publish succeeds or
\* raises, a publishing node makes one publish_event call per event, raises
\* nothing, goes on to its successor and leaves the update its node function
\* computes from the state alone.
TransportBestEffort ==
    [][/\ pc = "execute_command" =>
            /\ pc' = "send_response"
            /\ state' = ApplyUpdate(state, execute_command(state).update)
            /\ Len(NewAttempts) = Len(execute_command(state).events)
       /\ pc = "execute_ai" =>
            /\ pc' = "send_response"
            /\ \E gateway \in GatewayOutcomes :
                /\ state' = ApplyUpdate(state, execute_ai(state, gateway).update)
                /\ Len(NewAttempts) = Len(execute_ai(state, gateway).events)
       /\ pc = "error_handler" =>
            /\ pc' = "send_response"
            /\ state' = ApplyUpdate(state, handle_error(state).update)
            /\ Len(NewAttempts) = Len(handle_error(state).events)
       /\ pc = "send_response" =>
            /\ pc' = "END"
            /\ state' = ApplyUpdate(state, send_response(state).update)
            /\ Len(NewAttempts) = Len(send_response(state).events)]_vars

\* A run has ended with its response computed although the publish of the
\* RESPONSE event failed.
TransportBestEffortWitness ==
    /\ pc = "END"
    /\ state.phase = "completed"
    /\ state.responses_sent # <<>>
    /\ \E i \in DOMAIN published :
        published[i].type = "response" /\ ~published[i].delivered

\* C21: Channel namespacing.  Every event of an accepted request is published
\* on <prefix>response:<conversation_id> when it is a RESPONSE and on
\* <prefix>events:<conversation_id> otherwise, and no two events of different
\* conversation ids are published on the same channel.
ChannelNamespacing ==
    /\ \A i \in DOMAIN published :
        published[i].channel =
            redis_channel_prefix
            \o <<IF published[i].type = "response" THEN "response" ELSE "events", ":">>
            \o published[i].conversation_id
    /\ \A i, j \in DOMAIN published :
        published[i].channel = published[j].channel =>
            published[i].conversation_id = published[j].conversation_id

\* C22: Streaming protocol.  The events of a /conversation/stream request are
\* node_update events, one per node whose update the graph yields, in the
\* order the nodes ran, followed by one terminal event: complete when the
\* graph finished, error when an exception occurred.  Nothing follows the
\* terminal event, and complete and error never both occur.
StreamProtocol ==
    /\ [](\A i \in 1..(Len(http.events) - 1) : http.events[i].event = "node_update")
    /\ [](http.endpoint = "stream" =>
            \A i \in DOMAIN http.events : http.events[i].event = "node_update")
    /\ [](http.endpoint = "stream_closed" =>
            /\ http.events # <<>>
            /\ http.events[Len(http.events)].event =
                    IF pc = "raised" THEN "error" ELSE "complete")
    /\ [][http.endpoint = "stream" =>
            IF pc \in NodeNames /\ pc' \notin {pc, "raised"}
            THEN /\ Len(http'.events) = Len(http.events) + 1
                 /\ SubSeq(http'.events, 1, Len(http.events)) = http.events
                 /\ http'.events[Len(http'.events)].event = "node_update"
                 /\ http'.events[Len(http'.events)].node = pc
            ELSE IF pc \in {"END", "raised"}
            THEN /\ Len(http'.events) = Len(http.events) + 1
                 /\ SubSeq(http'.events, 1, Len(http.events)) = http.events
            ELSE http'.events = http.events]_vars

\* A swarm request has been streamed to its end: five node updates in the
\* order of the run, then complete.
StreamProtocolWitness ==
    /\ http.endpoint = "stream_closed"
    /\ Len(http.events) = 6
    /\ [i \in 1..5 |-> http.events[i].node] =
            <<"parse_input", "load_context", "route_input", "swarm_subgraph",
              "send_response">>
    /\ http.events[6].event = "complete"

\* C30: Thread introspection errors.  GET /thread/{thread_id}/state answers
\* 400 when checkpointing is disabled; with checkpointing on it answers 404
\* when the store has no checkpoint of that thread id; and a state it
\* returns is the checkpoint of exactly that thread id.
ThreadStateErrors ==
    http.endpoint = "thread_state" =>
        LET r == http.response[1]
            t == http.thread_id[1]
        IN  /\ ~http.enable_checkpointing => r.status = 400
            /\ (http.enable_checkpointing /\ http.checkpoints[t] = None) => r.status = 404
            /\ r.status = 200 =>
                    /\ http.enable_checkpointing
                    /\ http.checkpoints[t] # None
                    /\ r.thread_id = t
                    /\ r.state = http.checkpoints[t][1]

\* A thread without a checkpoint has been asked for while the other thread
\* has one: 404.
ThreadStateErrorsWitness ==
    /\ http.endpoint = "thread_state"
    /\ http.response[1].status = 404
    /\ http.checkpoints[http.thread_id[1]] = None
    /\ \E t \in ThreadIds : http.checkpoints[t] # None

\* The request of the scenario.
LoginSwarmRun ==
    state.raw_message = <<SLASH, "swarm", SP, "Build", SP, "a", SP, "login", SP, "API">>

\* C23: End-to-end '/swarm Build a login API'.  decompose_task yields the
\* three sub-tasks architect, implementer, tester, each later one depending
\* on the one before; the first batch executed holds the architect alone
\* while the other two are pending; the implementer leaves pending only when
\* the architect has a result, the tester only when the implementer has one;
\* the synthesized summary has exactly three agent result sections.
LoginSwarmScenario ==
    (LoginSwarmRun /\ spc \notin {"idle", "decompose"}) =>
        /\ [i \in DOMAIN sw.sub_tasks |-> sw.sub_tasks[i].role] =
                <<"architect", "implementer", "tester">>
        /\ [i \in DOMAIN sw.sub_tasks |-> sw.sub_tasks[i].dependencies] =
                <<{}, {sw.sub_tasks[1].id}, {sw.sub_tasks[2].id}>>
        /\ (hops.execute = 1 /\ exec.active) =>
                /\ exec.running_tasks = <<sw.sub_tasks[1].id>>
                /\ sw.sub_tasks[2].status = "pending"
                /\ sw.sub_tasks[3].status = "pending"
        /\ sw.sub_tasks[2].status # "pending" => sw.sub_tasks[1].id \in completed_ids(sw)
        /\ sw.sub_tasks[3].status # "pending" => sw.sub_tasks[2].id \in completed_ids(sw)
        /\ spc # "raised"
        /\ spc \in {"END", "returned"} =>
                /\ sw.synthesized_summary # None
                /\ [i \in DOMAIN sw.synthesized_summary[1].agent_sections |->
                        sw.synthesized_summary[1].agent_sections[i].role] =
                        <<"architect", "implementer", "tester">>

\* The run has ended after three batches of one agent each.
LoginSwarmScenarioWitness ==
    /\ LoginSwarmRun
    /\ pc = "END"
    /\ hops.execute = 3
    /\ Len(sw.synthesized_summary[1].agent_sections) = 3
    /\ state.swarm_result[1].agent_count = 3

\* The request of the scenario, and the nodes whose updates have been
\* streamed so far.
HelpRun == state.raw_message = <<SLASH, "help">>

StreamedNodes ==
    LET n == IF http.endpoint = "stream_closed"
             THEN Len(http.events) - 1 ELSE Len(http.events)
    IN  [i \in 1..n |-> http.events[i].node]

HelpPath ==
    <<"parse_input", "load_context", "route_input", "execute_command",
      "send_response", "END">>

\* C24: End-to-end '/help'.  The run visits parse_input, load_context,
\* route_input, execute_command, send_response in that order and no other
\* node; the input is classified deterministic_command, responses_sent is
\* exactly the one help text and the final phase is completed.
HelpScenario ==
    HelpRun =>
        /\ Len(StreamedNodes) < Len(HelpPath)
        /\ StreamedNodes = SubSeq(HelpPath, 1, Len(StreamedNodes))
        /\ pc = HelpPath[Len(StreamedNodes) + 1]
        /\ pc # "parse_input" => state.input_type = Some("deterministic_command")
        /\ pc = "END" =>
                /\ state.responses_sent = <<HelpText>>
                /\ state.phase = "completed"
                /\ state.error = None

\* The '/help' run has ended and its stream is closed.
HelpScenarioWitness ==
    /\ HelpRun
    /\ pc = "END"
    /\ http.endpoint = "stream_closed"
    /\ Len(StreamedNodes) = 5
    /\ state.responses_sent = <<HelpText>>

\* The commands execute_command has a case for.
HandledCommands == {<<"help">>, <<"status">>, <<"repos">>, <<"getcwd">>, <<"stop">>}

\* C27: Command executor totality.  For every name in DETERMINISTIC_COMMANDS
\* execute_command gives a non-empty direct_response, phase command_executed
\* and no error; a name without a case of its own gets the "not yet
\* implemented" message; an error comes out only when parsed_command is
\* absent.
CommandExecutorTotality ==
    pc = "send_response" =>
        IF state.parsed_command # None
        THEN /\ state.parsed_command[1].command \in DETERMINISTIC_COMMANDS
             /\ state.direct_response # None
             /\ state.direct_response[1] # <<>>
             /\ state.phase = "command_executed"
             /\ state.error = None
             /\ state.parsed_command[1].command \notin HandledCommands =>
                    state.direct_response[1] =
                        <<"Command /">> \o state.parsed_command[1].command
                        \o <<" not yet implemented in LangGraph service.">>
             /\ state.parsed_command[1].command \in HandledCommands =>
                    state.direct_response[1][Len(state.direct_response[1])] #
                        " not yet implemented in LangGraph service."
        ELSE /\ state.error = Some(<<"No command to execute">>)
             /\ state.phase = "error"
             /\ state.direct_response = None

\* '/worktree x' has been executed: no case of its own, no error.
CommandExecutorTotalityWitness ==
    /\ pc = "send_response"
    /\ state.parsed_command # None
    /\ state.parsed_command[1].command = <<"worktree">>
    /\ state.parsed_command[1].args = <<<<"x">>>>
    /\ state.direct_response # None
    /\ state.error = None

\* Every sub-task of the swarm has been executed and has failed.
EverySubTaskFailed ==
    /\ sw.sub_tasks # <<>>
    /\ \A i \in DOMAIN sw.sub_tasks : sw.sub_tasks[i].status = "failed"

\* C25: A swarm in which every sub-task fails still terminates normally:
\* the swarm graph raises nothing, synthesize_results gives a summary and
\* phase completed, and the response reports failed_count equal to the
\* number of sub-tasks executed and completed_count 0.
AllFailedSwarmCompletes ==
    EverySubTaskFailed =>
        /\ spc # "raised"
        /\ spc = "END" =>
                /\ sw.phase = "completed"
                /\ Truthy(sw.synthesized_summary)
                /\ sw.synthesized_summary[1].succeeded = 0
                /\ sw.synthesized_summary[1].total = Len(sw.sub_tasks)
        /\ http.endpoint = "swarm_returned" =>
                /\ http.response[1].http_status = 200
                /\ http.response[1].status = "completed"
                /\ http.response[1].summary = sw.synthesized_summary[1]
                /\ http.response[1].failed_count = Len(sw.sub_tasks)
                /\ http.response[1].completed_count = 0

\* The three agents of the build template have all failed and the response
\* has been returned.
AllFailedSwarmCompletesWitness ==
    /\ EverySubTaskFailed
    /\ Len(sw.sub_tasks) = 3
    /\ sw.sub_tasks[3].dependencies # {}
    /\ http.endpoint = "swarm_returned"
    /\ http.response[1].failed_count = 3

\* The values of SwarmState.strategy.
StrategyValues == {None, Some("parallel"), Some("sequential"), Some("hybrid")}

\* C26: The strategy tag is pure metadata.  From two swarm states that
\* differ only in strategy, spawn_agents, execute_agents and
\* synthesize_results give the same updates and the conditional edges the
\* same targets, and no update touches strategy: the two runs take the same
\* steps and end with the same sub-task statuses and completed results.
StrategyIsMetadata ==
    \A v \in StrategyValues :
        LET other == [sw EXCEPT !.strategy = v]
        IN  /\ spawn_agents(other) = spawn_agents(sw)
            /\ "strategy" \notin DOMAIN spawn_agents(sw)
            /\ spawn_routing(MergeUpdate(other, spawn_agents(other))) =
                    spawn_routing(MergeUpdate(sw, spawn_agents(sw)))
            /\ should_continue_spawning(other) = should_continue_spawning(sw)
            /\ SelectSeq(other.sub_tasks, IsRunning) = SelectSeq(sw.sub_tasks, IsRunning)
            /\ (exec.active /\ gather_done(exec)) =>
                    /\ execute_agents_update(other, FinishedResults(exec)) =
                            execute_agents_update(sw, FinishedResults(exec))
                    /\ "strategy" \notin DOMAIN execute_agents_update(sw, FinishedResults(exec))
            /\ synthesize_results(other) = synthesize_results(sw)
            /\ "strategy" \notin DOMAIN synthesize_results(sw)

\* Two agents run side by side in a swarm whose tag is not "parallel".
StrategyIsMetadataWitness ==
    /\ spc = "execute"
    /\ exec.active
    /\ Len(exec.running_tasks) >= 2
    /\ sw.strategy # Some("parallel")
    /\ \E i \in DOMAIN sw.sub_tasks : sw.sub_tasks[i].status = "pending"

\* The two optional sections of a prompt, as the spec describes them.
ThreadSection(s) ==
    IF Truthy(s.thread_context)
    THEN <<"## Thread Context (previous messages)">> \o s.thread_context[1]
         \o <<"---", "## Current Request">>
    ELSE <<>>

IssueSection(s) ==
    IF Truthy(s.issue_context) THEN <<"---">> \o s.issue_context[1] ELSE <<>>

\* C28: Prompt section order.  Whatever contexts are present, the prompt
\* build_prompt leaves is the thread-context section, then the current
\* request, then the issue-context section, absent sections left out; for
\* an ai_query with neither context the prompt is the raw message.
PromptSectionOrder ==
    pc = "execute_ai" =>
        LET p == state.prompt_to_send[1]
            ts == ThreadSection(state)
            is == IssueSection(state)
            request == SubSeq(p, Len(ts) + 1, Len(p) - Len(is))
        IN  /\ state.prompt_to_send # None
            /\ Len(p) >= Len(ts) + Len(is)
            /\ SubSeq(p, 1, Len(ts)) = ts
            /\ SubSeq(p, Len(p) - Len(is) + 1, Len(p)) = is
            /\ p = ts \o request \o is
            /\ state.input_type = Some("ai_query") => request = state.raw_message
            /\ state.input_type \in {Some("codebase_command"), Some("template_command")} =>
                    /\ request[1] = "The user invoked the /"
                    /\ request[2] = state.command_name[1][1]
            /\ (state.input_type = Some("ai_query") /\ state.thread_context = None
                    /\ state.issue_context = None) => p = state.raw_message

\* A prompt has been built from a question with both contexts present.
PromptSectionOrderWitness ==
    /\ pc = "execute_ai"
    /\ state.input_type = Some("ai_query")
    /\ state.thread_context # None
    /\ state.issue_context # None
    /\ Len(state.prompt_to_send[1]) = Len(state.raw_message) + 4 + 2

\* C29: parse_command tokenization.  parse_command returns None for a
\* message not starting with '/'; for every other message it returns the
\* command, which is the first whitespace-delimited word after '/' (in
\* lower case, as the classification takes it), and the ordered arguments, in which a quoted run is one token without its quotes
\* and an unquoted run of non-whitespace is one token; '/help' gives command
\* 'help' and no arguments.
ParseCommandTokenization ==
    LET message == Strip(state.raw_message)
        after == LStrip(Tail(message))
        word == FirstWord(after)
        rest == LStrip(Drop(after, Len(word)))
    IN  /\ StartsWithSlash(message) => pc # "raised"
        /\ pc = "load_context" =>
                IF ~StartsWithSlash(message)
                THEN state.parsed_command = None
                ELSE /\ state.parsed_command # None
                     /\ state.parsed_command[1].command = Lower(word)
                     /\ state.parsed_command[1].args = TokenizeArgs(rest)
                     /\ message = <<SLASH, "help">> =>
                            /\ state.parsed_command[1].command = <<"help">>
                            /\ state.parsed_command[1].args = <<>>

NoSubTaskExecutedTwice ==
    /\ [](\A i, j \in DOMAIN sw.completed_results :
            sw.completed_results[i].sub_task_id = sw.completed_results[j].sub_task_id
                => i = j)
    /\ [](\A k \in DOMAIN sw.sub_tasks :
            /\ sw.sub_tasks[k].status = "completed" <=>
                    \E i \in DOMAIN sw.completed_results :
                        /\ sw.completed_results[i].sub_task_id = sw.sub_tasks[k].id
                        /\ sw.completed_results[i].success
            /\ sw.sub_tasks[k].status = "failed" <=>
                    \E i \in DOMAIN sw.completed_results :
                        /\ sw.completed_results[i].sub_task_id = sw.sub_tasks[k].id
                        /\ ~sw.completed_results[i].success)
    /\ [][/\ Len(sw'.completed_results) >= Len(sw.completed_results)
          /\ SubSeq(sw'.completed_results, 1, Len(sw.completed_results)) =
                sw.completed_results]_vars

\* Two batches have run: a failed result followed by a successful one.
NoSubTaskExecutedTwiceWitness ==
    /\ spc = "END"
    /\ hops.execute >= 2
    /\ Len(sw.completed_results) >= 2
    /\ ~sw.completed_results[1].success
    /\ sw.completed_results[Len(sw.completed_results)].success

\* The swarm graph stands right after an execute_agents step: as many
\* execute steps as spawn steps have begun and the last one has returned.
AfterExecuteStep ==
    /\ hops.execute > 0
    /\ hops.execute = hops.spawn
    /\ ~exec.active

RunningIds == {sw.sub_tasks[k].id : k \in {j \in DOMAIN sw.sub_tasks : IsRunning(sw.sub_tasks[j])}}

\* C33: running_agents bookkeeping.  At every node boundary running_agents
\* holds exactly the ids of the sub-tasks whose status is running, each
\* once; it is empty after every execute_agents step and at
\* synthesize_results.
RunningAgentsBookkeeping ==
    /\ \A i, j \in DOMAIN sw.running_agents :
            sw.running_agents[i] = sw.running_agents[j] => i = j
    /\ {sw.running_agents[i] : i \in DOMAIN sw.running_agents} = RunningIds
    /\ AfterExecuteStep => sw.running_agents = <<>>
    /\ spc \in {"synthesize", "END"} => sw.running_agents = <<>>

\* The second batch, of two agents, has been spawned.
RunningAgentsBookkeepingWitness ==
    /\ spc = "execute"
    /\ hops.spawn = 2
    /\ Len(sw.running_agents) = 2
    /\ sw.completed_results # <<>>

\* C34: No execute self-loop.  Right after an execute_agents step no
\* sub-task is ready or running, should_continue_spawning does not return
\* 'execute', and execute_agents never starts without a running task.
NoExecuteSelfLoop ==
    /\ AfterExecuteStep =>
            /\ \A k \in DOMAIN sw.sub_tasks :
                    sw.sub_tasks[k].status \notin {"ready", "running"}
            /\ should_continue_spawning(sw) # "execute"
            /\ spc # "execute"
    /\ spc = "execute" => RunningIds # {}

\* A batch of two agents has been executed and the graph is back at spawn.
NoExecuteSelfLoopWitness ==
    /\ AfterExecuteStep
    /\ spc = "spawn"
    /\ Len(exec.running_tasks) = 2
    /\ \E k \in DOMAIN sw.sub_tasks : sw.sub_tasks[k].status = "pending"

\* The sub-tasks of the swarm that were never handed to an agent.
NeverRan ==
    {k \in DOMAIN sw.sub_tasks : sw.sub_tasks[k].status \in {"pending", "ready"}}

\* C35: Swarm result counts.  For a terminated swarm, in the result of the
\* swarm node and in the response of /swarm alike, completed_count +
\* failed_count is the number of AgentResults and at most agent_count, and
\* agent_count - completed_count - failed_count is the number of sub-tasks
\* that never ran.
SwarmResultCounts ==
    spc = "END" =>
        \A r \in {SwarmResult(sw), SwarmResponse(sw)} :
            /\ r.completed_count + r.failed_count = Len(sw.completed_results)
            /\ r.completed_count + r.failed_count <= r.agent_count
            /\ r.agent_count = Len(sw.sub_tasks)
            /\ r.agent_count - r.completed_count - r.failed_count = Cardinality(NeverRan)
            /\ \A k \in DOMAIN sw.sub_tasks : sw.sub_tasks[k].status # "running"

\* A swarm has ended with a successful result, a failed one and a sub-task
\* that never ran.
SwarmResultCountsWitness ==
    /\ spc = "END"
    /\ NeverRan # {}
    /\ SwarmResult(sw).completed_count = 1
    /\ SwarmResult(sw).failed_count = 1
    /\ SwarmResult(sw).agent_count = 3

\* C36: A failed AI execution never answers with stale content.  Whatever
\* history the state already holds, a run whose execute_ai failed ends with
\* one response, which carries the error text of this failure and is no
\* assistant message of an earlier turn.
FailedAiNeverStale ==
    (/\ pc = "END"
     /\ state.ai_result # None
     /\ ~state.ai_result[1].success) =>
        /\ Len(state.responses_sent) = 1
        /\ \A j \in DOMAIN state.messages :
                state.messages[j].type = "ai" =>
                    state.responses_sent[1] # state.messages[j].content
        /\ state.error # None
        /\ LET response == state.responses_sent[1]
               error == state.error[1]
           IN  /\ Len(response) >= Len(error)
               /\ SubSeq(response, Len(response) - Len(error) + 1, Len(response)) = error

\* C37: Checkpointer singleton under concurrency.  With checkpointing
\* enabled, however the concurrent get_checkpointer calls interleave,
\* setup_checkpointer is entered at most once and all callers get the same
\* checkpointer instance.
CheckpointerSingleton ==
    http.enable_checkpointing =>
        /\ http.setups <= 1
        /\ \A c, d \in Callers :
                (http.calls[c].at = "returned" /\ http.calls[d].at = "returned") =>
                    /\ http.calls[c].returned = http.calls[d].returned
                    /\ http.calls[c].returned # None

\* The pongs handed to redis.publish.
PongAttempts(p) == Cardinality({i \in DOMAIN p : p[i].type = "pong"})

\* The step is a turn of the listen loop: it takes the head of the
\* subscription's queue.
TakesHead ==
    /\ worker.handling = None
    /\ worker.inbox # <<>>
    /\ worker'.delivered = worker.delivered
    /\ worker' # worker

\* What a step may do to the subscription's queue and the running handler.
OneAtATimeStep ==
    /\ (worker'.inbox # worker.inbox /\ worker'.delivered = worker.delivered) =>
            (/\ worker.handling = None
             /\ worker.inbox # <<>>
             /\ worker'.inbox \in {Tail(worker.inbox),
                                   Append(Tail(worker.inbox), OwnPong)})
    /\ (worker'.delivered # worker.delivered) =>
            (/\ Len(worker'.inbox) = Len(worker.inbox) + 1
             /\ SubSeq(worker'.inbox, 1, Len(worker.inbox)) = worker.inbox
             /\ worker'.handling = worker.handling)
    /\ (worker.handling # None) =>
            (/\ worker'.handling \in {worker.handling, None}
             /\ PongAttempts(published') = PongAttempts(published))

\* C38: The Redis worker processes messages strictly one at a time in
\* arrival order.  A message leaves the queue only from its head and only
\* while no handler is running; a running handler is never replaced and no
\* ping is answered while it runs; and whenever no handler is running,
\* whatever the earlier messages were (a request whose handler raised,
\* invalid JSON), the listen loop is alive and ready for the next message.
WorkerOneAtATime ==
    /\ [](worker.handling = None => (pc = "idle" /\ worker.task = "listening"))
    /\ [](worker.handling # None => pc # "idle")
    /\ [][OneAtATimeStep]_vars

\* A request's handler has raised and its error event was published, and a
\* later request has been taken and handled to the end of its graph.
WorkerOneAtATimeWitness ==
    /\ \E i \in DOMAIN published :
            published[i].type = "error" /\ published[i].data = <<"request failed">>
    /\ worker.handling # None
    /\ pc = "END"

\* C39: Ping/pong on the control channel.  Each ping taken from the
\* control channel hands exactly one pong to redis.publish and does not
\* reach the request handler; the worker's own pong, which comes back
\* through its subscription, is dropped without a publish or a
\* conversation; no other message makes a pong; so the pongs never
\* outnumber the messages the platform sent.
PingPong ==
    /\ [](PongAttempts(published) <= worker.delivered)
    /\ [][IF TakesHead
          THEN IF is_ping(Head(worker.inbox))
               THEN /\ PongAttempts(published') = PongAttempts(published) + 1
                    /\ Len(published') = Len(published) + 1
                    /\ worker'.handling = None
                    /\ pc' = "idle"
                    /\ worker'.inbox \in {Tail(worker.inbox),
                                          Append(Tail(worker.inbox), OwnPong)}
               ELSE /\ PongAttempts(published') = PongAttempts(published)
                    /\ Head(worker.inbox) = OwnPong =>
                            /\ published' = published
                            /\ worker'.handling = None
                            /\ pc' = "idle"
                            /\ worker'.inbox = Tail(worker.inbox)
          ELSE PongAttempts(published') = PongAttempts(published)]_vars

\* One ping was sent and answered, and the worker has taken its own pong
\* back from the control channel and dropped it.
PingPongWitness ==
    /\ worker.delivered = 1
    /\ PongAttempts(published) = 1
    /\ \E i \in DOMAIN published : published[i].type = "pong" /\ published[i].delivered
    /\ worker.inbox = <<>>
    /\ worker.handling = None

\* C40: Worker lifecycle.  Across any sequence of start and stop calls at
\* most one listener task is alive, and _running is true exactly when a
\* listener task exists that has not finished, also after the listen loop
\* has ended on its own through an exception.
WorkerLifecycle ==
    /\ worker.alive <= 1
    /\ worker.running <=> worker.task = "listening"

====
